---- MODULE Spec2Model ----
(***************************************************************************)
(* Model of the firmacheck scraper: the KBO CSV import pipeline            *)
(* (scraper/src/importers/kbo-csv-importer.ts), the store writes           *)
(* (scraper/src/db/upsert.ts), the VAT key utilities (utils/vat.ts) and    *)
(* the command line entry (scraper/src/index.ts).                          *)
(*                                                                         *)
(* Strings the code manipulates character by character are sequences of    *)
(* one-character strings; opaque codes ("AC", "2008", "MAIN") are strings. *)
(***************************************************************************)
EXTENDS Integers, Sequences, FiniteSets, TLC

\* ------------------------------------------------------------------------
\* Strings
\* ------------------------------------------------------------------------

\* JavaScript null / undefined for a string-valued result.
NULL == <<"null">>

DigitChars == {"0", "1", "2", "3", "4", "5", "6", "7", "8", "9"}

DigitSeq == <<"0", "1", "2", "3", "4", "5", "6", "7", "8", "9">>

DigitChar(n) == DigitSeq[n + 1]

DigitVal(c) == CHOOSE n \in 0..9 : DigitSeq[n + 1] = c

LowerChars == <<"a", "b", "c", "d", "e", "f", "g", "h", "i", "j", "k", "l", "m",
                "n", "o", "p", "q", "r", "s", "t", "u", "v", "w", "x", "y", "z">>

UpperChars == <<"A", "B", "C", "D", "E", "F", "G", "H", "I", "J", "K", "L", "M",
                "N", "O", "P", "Q", "R", "S", "T", "U", "V", "W", "X", "Y", "Z">>

UpperChar(c) ==
    IF \E i \in 1..26 : LowerChars[i] = c
    THEN UpperChars[CHOOSE i \in 1..26 : LowerChars[i] = c]
    ELSE c

LowerChar(c) ==
    IF \E i \in 1..26 : UpperChars[i] = c
    THEN LowerChars[CHOOSE i \in 1..26 : UpperChars[i] = c]
    ELSE c

\* String.prototype.toUpperCase / toLowerCase
toUpperCase(s) == [i \in 1..Len(s) |-> UpperChar(s[i])]

toLowerCase(s) == [i \in 1..Len(s) |-> LowerChar(s[i])]

\* \s of a JavaScript regular expression, on the alphabet of the model
IsSpace(c) == c = " "

RECURSIVE TrimLeft(_)
TrimLeft(s) ==
    IF s # <<>> /\ IsSpace(Head(s)) THEN TrimLeft(Tail(s)) ELSE s

RECURSIVE TrimRight(_)
TrimRight(s) ==
    IF s # <<>> /\ IsSpace(s[Len(s)]) THEN TrimRight(SubSeq(s, 1, Len(s) - 1)) ELSE s

\* String.prototype.trim
trim(s) == TrimRight(TrimLeft(s))

\* String.prototype.slice(from, to) with 0-based, end-exclusive indices
slice(s, from, to) ==
    SubSeq(s, from + 1, IF to > Len(s) THEN Len(s) ELSE to)

\* String.prototype.startsWith
startsWith(s, p) == Len(s) >= Len(p) /\ SubSeq(s, 1, Len(p)) = p

\* parseInt(s, 10) of a string of decimal digits
RECURSIVE parseInt(_)
parseInt(s) ==
    IF s = <<>> THEN 0
    ELSE 10 * parseInt(SubSeq(s, 1, Len(s) - 1)) + DigitVal(s[Len(s)])

\* ------------------------------------------------------------------------
\* utils/vat.ts
\* ------------------------------------------------------------------------

\* VAT_PATTERNS.DIGITS_ONLY = /^[01]\d{9}$/
DIGITS_ONLY(s) ==
    /\ Len(s) = 10
    /\ s[1] \in {"0", "1"}
    /\ \A i \in 1..10 : s[i] \in DigitChars

\* .replace(/^BE\s?/, '')
StripBePrefix(s) ==
    IF startsWith(s, <<"B", "E">>)
    THEN IF Len(s) >= 3 /\ IsSpace(s[3]) THEN SubSeq(s, 4, Len(s)) ELSE SubSeq(s, 3, Len(s))
    ELSE s

\* .replace(/[\s.]/g, '')
StripSpacesAndDots(s) == SelectSeq(s, LAMBDA c : ~IsSpace(c) /\ c # ".")

CleanVat(vat) == StripSpacesAndDots(StripBePrefix(toUpperCase(trim(vat))))

normalizeVat(vat) ==
    IF vat = NULL \/ vat = <<>> THEN NULL
    ELSE IF ~DIGITS_ONLY(CleanVat(vat)) THEN NULL
    ELSE CleanVat(vat)

\* formatVat with the last group cut one digit short, normalized.slice(7, 9)
formatVat_lastGroupShort(vat) ==
    IF normalizeVat(vat) = NULL THEN NULL
    ELSE <<"B", "E", " ">> \o slice(normalizeVat(vat), 0, 4) \o <<".">>
            \o slice(normalizeVat(vat), 4, 7) \o <<".">> \o slice(normalizeVat(vat), 7, 9)

formatVat(vat) ==
    LET normalized == normalizeVat(vat) IN
    IF normalized = NULL THEN NULL
    ELSE <<"B", "E", " ">> \o slice(normalized, 0, 4) \o <<".">>
            \o slice(normalized, 4, 7) \o <<".">> \o slice(normalized, 7, 10)

\* validateVat with the base read one digit too far to the right,
\* normalized.slice(1, 8): the first digit takes no part in the checksum
validateVat_baseFromSecondDigit(vat) ==
    LET normalized == normalizeVat(vat) IN
    IF normalized = NULL
    THEN [isValid |-> FALSE, normalized |-> NULL, formatted |-> NULL,
          error |-> "format", expected |-> 0]
    ELSE LET base == parseInt(slice(normalized, 1, 8))
             checksum == parseInt(slice(normalized, 8, 10))
             expectedChecksum == 97 - (base % 97)
         IN  [isValid |-> checksum = expectedChecksum, normalized |-> normalized,
              formatted |-> NULL,
              error |-> IF checksum = expectedChecksum THEN "none" ELSE "checksum",
              expected |-> expectedChecksum]

\* The result record of validateVat; error is "none", "format" or "checksum",
\* and expected is the checksum the message of a checksum error reports.
validateVat(vat) ==
    LET normalized == normalizeVat(vat) IN
    IF normalized = NULL
    THEN [isValid |-> FALSE, normalized |-> NULL, formatted |-> NULL,
          error |-> "format", expected |-> 0]
    ELSE LET base == parseInt(slice(normalized, 0, 8))
             checksum == parseInt(slice(normalized, 8, 10))
             expectedChecksum == 97 - (base % 97)
         IN  IF checksum # expectedChecksum
             THEN [isValid |-> FALSE, normalized |-> normalized,
                   formatted |-> formatVat(normalized),
                   error |-> "checksum", expected |-> expectedChecksum]
             ELSE [isValid |-> TRUE, normalized |-> normalized,
                   formatted |-> formatVat(normalized),
                   error |-> "none", expected |-> expectedChecksum]

isValidVat(vat) == validateVat(vat).isValid

\* ------------------------------------------------------------------------
\* Values shared by the importer and the store
\* ------------------------------------------------------------------------

\* undefined / null for a value kept as an opaque string (a code or a label)
UNDEF == "undefined"

\* JavaScript truthiness of an optional string
Truthy(s) == s # NULL /\ s # <<>>

TruthyCode(c) == c # UNDEF /\ c # ""

\* a || b on optional strings
OrElse(a, b) == IF Truthy(a) THEN a ELSE b

\* A JavaScript Map: the entries in insertion order, one per key.
MapKeys(m) == {m[i].key : i \in DOMAIN m}

MapHas(m, k) == \E i \in DOMAIN m : m[i].key = k

MapGet(m, k) == m[CHOOSE i \in DOMAIN m : m[i].key = k].val

MapSet(m, k, v) ==
    IF MapHas(m, k)
    THEN [i \in DOMAIN m |-> IF m[i].key = k THEN [key |-> k, val |-> v] ELSE m[i]]
    ELSE Append(m, [key |-> k, val |-> v])

\* table[code] of a Record<string, string>, UNDEF when the code is no key of it
Lookup(table, code) ==
    IF \E i \in DOMAIN table : table[i][1] = code
    THEN table[CHOOSE i \in DOMAIN table : table[i][1] = code][2]
    ELSE UNDEF

\* Legal form code mapping (accents of the labels dropped)
LEGAL_FORM_MAP ==
    <<<<"001", "SCE">>, <<"002", "OFP">>, <<"003", "Unite TVA">>,
      <<"006", "SCRI">>, <<"007", "SCRIS">>, <<"008", "SCRL">>,
      <<"009", "SCRLS">>, <<"010", "SPRLU">>, <<"011", "SNC">>,
      <<"012", "SCS">>, <<"013", "SCA">>, <<"014", "SA">>,
      <<"015", "SPRL">>, <<"016", "SC">>, <<"017", "SE">>,
      <<"018", "GIE">>, <<"019", "GEIE">>, <<"020", "Fondation privee">>,
      <<"021", "Fondation utilite publique">>, <<"024", "Mutualite">>,
      <<"025", "Union nationale mutualites">>,
      <<"026", "Soc. mutualiste">>, <<"027", "ASBL">>,
      <<"028", "AISBL">>, <<"029", "Fondation">>,
      <<"030", "Etabl. utilite publique">>, <<"101", "Etat federal">>,
      <<"102", "Communaute">>, <<"103", "Region">>,
      <<"104", "Commission comm.">>, <<"105", "Province">>,
      <<"106", "Commune">>, <<"107", "CPAS">>,
      <<"108", "Intercommunale">>, <<"109", "Zone police">>,
      <<"110", "Zone secours">>, <<"111", "Polder/Wateringue">>,
      <<"112", "Fabrique eglise">>, <<"113", "Etabl. temporel">>,
      <<"114", "Autorite etrangere">>,
      <<"115", "Organisation internationale">>,
      <<"116", "Organisme public">>, <<"117", "Entreprise publique">>,
      <<"401", "Pers. physique commercant">>,
      <<"402", "Pers. physique profession liberale">>,
      <<"403", "Pers. physique artisan">>,
      <<"404", "Pers. physique agriculteur">>,
      <<"405", "Pers. physique administrateur">>,
      <<"406", "Pers. physique salarie etranger">>,
      <<"407", "Pers. physique autre">>,
      <<"408", "Pers. physique independant">>,
      <<"409", "Pers. physique professionnel independant">>,
      <<"410", "Societe momentanee">>, <<"411", "Societe interne">>,
      <<"412", "Societe de fait">>, <<"413", "Association de fait">>,
      <<"414", "Syndicat">>, <<"415", "Maison collective">>,
      <<"416", "Intercommunale">>, <<"417", "Regie communale">>,
      <<"418", "Copropriete">>, <<"419", "Entreprise sociale">>,
      <<"420", "Entreprise etrangere">>, <<"421", "Association">>,
      <<"430", "Org. interprofessionnel">>,
      <<"431", "Consort. validation competences">>,
      <<"432", "Entreprise portefeuille">>, <<"610", "SA">>,
      <<"611", "SCA">>, <<"612", "SRL">>, <<"613", "SPRL">>,
      <<"614", "SC">>, <<"615", "SCRL">>, <<"616", "SNC">>,
      <<"617", "SCS">>, <<"618", "GIE">>, <<"620", "Fondation privee">>,
      <<"621", "Fondation utilite publique">>, <<"627", "AISBL">>,
      <<"628", "Fondation">>, <<"629", "ASBL">>, <<"630", "ASBL">>,
      <<"631", "Syndicat">>, <<"632", "Fonds pension">>,
      <<"633", "Parti politique">>, <<"639", "SE">>, <<"640", "SCE">>>>

\* Mapping from KBO juridical situation codes to the enum values
JURIDICAL_SITUATION_MAP ==
    <<<<"000", "normal">>, <<"001", "legal_creation">>,
      <<"002", "extension">>, <<"003", "number_replacement">>,
      <<"006", "stopped_number_replacement">>, <<"010", "dissolution">>,
      <<"011", "foreign_ceased">>, <<"012", "opening_bankruptcy">>,
      <<"013", "closing_bankruptcy">>,
      <<"020", "voluntary_dissolution">>,
      <<"030", "judicial_dissolution">>,
      <<"031", "judicial_dissolution_closed">>, <<"040", "annulment">>,
      <<"041", "merger_acquisition">>, <<"043", "division">>,
      <<"048", "transfer_registered_office">>, <<"050", "bankruptcy">>,
      <<"051", "bankruptcy_closed">>, <<"091", "liquidation">>>>

JuridicalSituationEnum ==
    {JURIDICAL_SITUATION_MAP[i][2] : i \in DOMAIN JURIDICAL_SITUATION_MAP} \cup {"other"}

\* names: {} of a new CompanyBuildData
EmptyNames ==
    [fr |-> NULL, nl |-> NULL, de |-> NULL, en |-> NULL,
     abbreviation |-> NULL, commercial |-> NULL]

NameFields == {"fr", "nl", "de", "en", "abbreviation", "commercial"}

\* {} of a new CompanyContact
EmptyContact == [phone |-> NULL, email |-> NULL, website |-> NULL, fax |-> NULL]

ContactFields == {"phone", "email", "website", "fax"}

\* ------------------------------------------------------------------------
\* importers/kbo-csv-importer.ts: the row handlers of passes 1 to 5
\* ------------------------------------------------------------------------

\* dateStr.split('-')
RECURSIVE SplitDash(_)
SplitDash(s) ==
    IF \E i \in 1..Len(s) : s[i] = "-"
    THEN LET i == CHOOSE j \in 1..Len(s) : s[j] = "-" /\ \A l \in 1..(j - 1) : s[l] # "-"
         IN  <<SubSeq(s, 1, i - 1)>> \o SplitDash(SubSeq(s, i + 1, Len(s)))
    ELSE <<s>>

\* s.padStart(2, '0')
padStart2(s) == IF Len(s) >= 2 THEN s ELSE IF Len(s) = 1 THEN <<"0">> \o s ELSE <<"0", "0">>

\* DD-MM-YYYY to YYYY-MM-DD, null when the value is not three non-empty parts
parseKboDate(dateStr) ==
    IF dateStr = NULL \/ dateStr = <<>> \/ trim(dateStr) = <<>> THEN NULL
    ELSE LET parts == SplitDash(dateStr) IN
         IF Len(parts) # 3 THEN NULL
         ELSE IF parts[1] = <<>> \/ parts[2] = <<>> \/ parts[3] = <<>> THEN NULL
         ELSE parts[3] \o <<"-">> \o padStart2(parts[2]) \o <<"-">> \o padStart2(parts[1])

\* the fallback with the abbreviation tried before the commercial name
getBestDisplayName_abbreviationFirst(names) ==
    OrElse(names.fr, OrElse(names.nl, OrElse(names.de, OrElse(names.en,
        OrElse(names.abbreviation, OrElse(names.commercial, NULL))))))

getBestDisplayName(names) ==
    OrElse(names.fr, OrElse(names.nl, OrElse(names.de, OrElse(names.en,
        OrElse(names.commercial, OrElse(names.abbreviation, NULL))))))

\* the record of pass 1 without the ?? 'other' of the situation
NewBuildData_noFallback(vatNumber, row) ==
    [vatNumber |-> vatNumber,
     status |-> IF row.Status = "AC" THEN "active" ELSE "stopped",
     juridicalSituation |-> Lookup(JURIDICAL_SITUATION_MAP, row.JuridicalSituation),
     legalForm |-> Lookup(LEGAL_FORM_MAP, row.JuridicalForm),
     legalFormCode |-> IF TruthyCode(row.JuridicalForm) THEN row.JuridicalForm ELSE UNDEF,
     startDate |-> parseKboDate(row.StartDate),
     names |-> EmptyNames,
     address |-> <<>>,
     establishmentCount |-> 0]

\* The record pass 1 stores for an accepted enterprise row
NewBuildData(vatNumber, row) ==
    [vatNumber |-> vatNumber,
     status |-> IF row.Status = "AC" THEN "active" ELSE "stopped",
     juridicalSituation |->
        IF Lookup(JURIDICAL_SITUATION_MAP, row.JuridicalSituation) # UNDEF
        THEN Lookup(JURIDICAL_SITUATION_MAP, row.JuridicalSituation) ELSE "other",
     legalForm |-> Lookup(LEGAL_FORM_MAP, row.JuridicalForm),
     legalFormCode |-> IF TruthyCode(row.JuridicalForm) THEN row.JuridicalForm ELSE UNDEF,
     startDate |-> parseKboDate(row.StartDate),
     names |-> EmptyNames,
     address |-> <<>>,
     establishmentCount |-> 0]

\* the filter of parseEnterprises without the isValidVat test
AcceptsEnterprise_noChecksum(row, activeOnly) ==
    /\ normalizeVat(row.EnterpriseNumber) # NULL
    /\ row.TypeOfEnterprise = "2"
    /\ ~(activeOnly /\ row.Status # "AC")

\* Whether the loop body of parseEnterprises keeps the row
AcceptsEnterprise(row, activeOnly) ==
    LET vatNumber == normalizeVat(row.EnterpriseNumber) IN
    /\ vatNumber # NULL
    /\ isValidVat(vatNumber)
    /\ row.TypeOfEnterprise = "2"
    /\ ~(activeOnly /\ row.Status # "AC")

\* One iteration of the loop of parseEnterprises
parseEnterprisesRow(map, row, activeOnly) ==
    IF AcceptsEnterprise(row, activeOnly)
    THEN MapSet(map, normalizeVat(row.EnterpriseNumber),
                NewBuildData(normalizeVat(row.EnterpriseNumber), row))
    ELSE map

\* Language code mapping: 1=FR, 2=NL, 3=DE, 4=EN
LANG_MAP == <<<<"1", "fr">>, <<"2", "nl">>, <<"3", "de">>, <<"4", "en">>>>

\* The name field a denomination row is about, UNDEF when it is about none
DenominationField(row) ==
    IF row.TypeOfDenomination = "001" THEN Lookup(LANG_MAP, row.Language)
    ELSE IF row.TypeOfDenomination = "002" THEN "abbreviation"
    ELSE IF row.TypeOfDenomination = "003" THEN "commercial"
    ELSE UNDEF

\* existing.names[field] = denomination without the test on the field
SetNameAlways(names, field, denomination) == [names EXCEPT ![field] = denomination]

\* existing.names[field] = denomination unless the field is already set
SetNameIfUnset(names, field, denomination) ==
    IF ~Truthy(names[field]) THEN [names EXCEPT ![field] = denomination] ELSE names

\* One iteration of the loop of enrichWithDenominations
enrichWithDenominationsRow(map, row) ==
    LET vatNumber == normalizeVat(row.EntityNumber)
        denomination == trim(row.Denomination)
        field == DenominationField(row)
    IN  IF vatNumber = NULL THEN map
        ELSE IF ~MapHas(map, vatNumber) THEN map
        ELSE IF denomination = <<>> THEN map
        ELSE IF field = UNDEF THEN map
        ELSE LET existing == MapGet(map, vatNumber) IN
             MapSet(map, vatNumber,
                    [existing EXCEPT !.names = SetNameIfUnset(existing.names, field, denomination)])

\* row.X?.trim() || undefined
TrimOrUndefined(s) == IF trim(s) = <<>> THEN NULL ELSE trim(s)

AddressOfRow(row) ==
    [street_fr |-> TrimOrUndefined(row.StreetFR),
     street_nl |-> TrimOrUndefined(row.StreetNL),
     number |-> TrimOrUndefined(row.HouseNumber),
     box |-> TrimOrUndefined(row.Box),
     postal_code |-> TrimOrUndefined(row.Zipcode),
     city_fr |-> TrimOrUndefined(row.MunicipalityFR),
     city_nl |-> TrimOrUndefined(row.MunicipalityNL),
     country |-> <<"B", "E">>]

\* Only add if we have at least street and city
HasStreetAndCity(address) ==
    /\ (Truthy(address.street_fr) \/ Truthy(address.street_nl))
    /\ (Truthy(address.city_fr) \/ Truthy(address.city_nl))

\* Whether an address row gets as far as building an address for a known key
ReachesAddress(map, row) ==
    /\ normalizeVat(row.EntityNumber) # NULL
    /\ MapHas(map, normalizeVat(row.EntityNumber))
    /\ row.TypeOfAddress = "REGO"

\* One iteration of the loop of enrichWithAddresses
enrichWithAddressesRow(map, row) ==
    LET vatNumber == normalizeVat(row.EntityNumber) IN
    IF ~ReachesAddress(map, row) THEN map
    ELSE LET existing == MapGet(map, vatNumber) IN
         IF existing.address # <<>> THEN map
         ELSE IF HasStreetAndCity(AddressOfRow(row))
              THEN MapSet(map, vatNumber, [existing EXCEPT !.address = <<AddressOfRow(row)>>])
              ELSE map

\* The switch on row.ContactType
ApplyContact(contact, type, value) ==
    IF type = "TEL"
    THEN IF ~Truthy(contact.phone) THEN [contact EXCEPT !.phone = value] ELSE contact
    ELSE IF type = "EMAIL"
    THEN IF ~Truthy(contact.email) THEN [contact EXCEPT !.email = toLowerCase(value)] ELSE contact
    ELSE IF type = "WEB"
    THEN IF ~Truthy(contact.website)
         THEN [contact EXCEPT !.website =
                  IF startsWith(value, <<"h", "t", "t", "p">>) THEN value
                  ELSE <<"h", "t", "t", "p", "s", ":", "/", "/">> \o value]
         ELSE contact
    ELSE IF type = "FAX"
    THEN IF ~Truthy(contact.fax) THEN [contact EXCEPT !.fax = value] ELSE contact
    ELSE contact

\* Whether a contact row gets as far as the switch
ReachesContact(known, row) ==
    /\ row.EntityContact = "ENT"
    /\ normalizeVat(row.EntityNumber) # NULL
    /\ normalizeVat(row.EntityNumber) \in known
    /\ trim(row.Value) # <<>>

\* One iteration of the loop of parseContacts
parseContactsRow(map, known, row) ==
    LET vatNumber == normalizeVat(row.EntityNumber)
        value == trim(row.Value)
    IN  IF ~ReachesContact(known, row) THEN map
        ELSE LET contact == IF MapHas(map, vatNumber) THEN MapGet(map, vatNumber)
                            ELSE EmptyContact
             IN  MapSet(map, vatNumber, ApplyContact(contact, row.ContactType, value))

\* One iteration of the loop of parseEstablishmentCounts
parseEstablishmentCountsRow(map, known, row) ==
    LET vatNumber == normalizeVat(row.EnterpriseNumber) IN
    IF vatNumber = NULL \/ vatNumber \notin known THEN map
    ELSE MapSet(map, vatNumber, (IF MapHas(map, vatNumber) THEN MapGet(map, vatNumber) ELSE 0) + 1)

\* ------------------------------------------------------------------------
\* utils/slugify.ts (on the alphabet of the model: ASCII letters, digits,
\* space, and the symbols & @ ' . - / :)
\* ------------------------------------------------------------------------

SlugMaxLength == 100

SlugSeparator == "-"

\* charMap[char] ?? char, for the characters of CHAR_MAP the alphabet has
MapSlugChar(c) ==
    IF c = "&" THEN <<"a", "n", "d">>
    ELSE IF c = "@" THEN <<"a", "t">>
    ELSE <<c>>

RECURSIVE MapSlugChars(_)
MapSlugChars(s) ==
    IF s = <<>> THEN <<>> ELSE MapSlugChar(Head(s)) \o MapSlugChars(Tail(s))

\* .replace(/IJ/g, 'ij').replace(/Ij/g, 'ij')
RECURSIVE ReplaceIJ(_)
ReplaceIJ(s) ==
    IF Len(s) < 2 THEN s
    ELSE IF s[1] = "I" /\ s[2] \in {"J", "j"}
         THEN <<"i", "j">> \o ReplaceIJ(SubSeq(s, 3, Len(s)))
         ELSE <<s[1]>> \o ReplaceIJ(Tail(s))

IsAlnum(c) ==
    \/ c \in DigitChars
    \/ \E i \in 1..26 : LowerChars[i] = c \/ UpperChars[i] = c

\* apostrophes, then every run of non-alphanumerics, become one separator
\* each; runs of separators are collapsed afterwards
RECURSIVE ReplaceNonAlnum(_)
ReplaceNonAlnum(s) ==
    IF s = <<>> THEN <<>>
    ELSE IF IsAlnum(Head(s)) THEN <<Head(s)>> \o ReplaceNonAlnum(Tail(s))
    ELSE IF Len(s) >= 2 /\ ~IsAlnum(s[2]) THEN ReplaceNonAlnum(Tail(s))
    ELSE <<SlugSeparator>> \o ReplaceNonAlnum(Tail(s))

RECURSIVE StripLeadingSep(_)
StripLeadingSep(s) ==
    IF s # <<>> /\ Head(s) = SlugSeparator THEN StripLeadingSep(Tail(s)) ELSE s

RECURSIVE StripTrailingSep(_)
StripTrailingSep(s) ==
    IF s # <<>> /\ s[Len(s)] = SlugSeparator
    THEN StripTrailingSep(SubSeq(s, 1, Len(s) - 1)) ELSE s

\* result.lastIndexOf(separator), 0-based, -1 when absent
LastIndexOfSep(s) ==
    IF \E i \in 1..Len(s) : s[i] = SlugSeparator
    THEN (CHOOSE i \in 1..Len(s) :
             s[i] = SlugSeparator /\ \A j \in (i + 1)..Len(s) : s[j] # SlugSeparator) - 1
    ELSE -1

\* Truncate to max length, at the last separator when it is past 70 %
TruncateSlug(s) ==
    IF Len(s) > SlugMaxLength
    THEN LET cut == slice(s, 0, SlugMaxLength) IN
         IF LastIndexOfSep(cut) * 10 > SlugMaxLength * 7
         THEN slice(cut, 0, LastIndexOfSep(cut)) ELSE cut
    ELSE s

slugify(input) ==
    IF ~Truthy(input) THEN <<>>
    ELSE TruncateSlug(StripTrailingSep(StripLeadingSep(
            ReplaceNonAlnum(toLowerCase(ReplaceIJ(MapSlugChars(trim(input))))))))

\* removeSuffix defaults to false
slugifyCompanyName(name) == slugify(name)

\* ------------------------------------------------------------------------
\* Pass 6: the rows batchInsertCompanies builds, and db/upsert.ts
\* ------------------------------------------------------------------------

\* The CompanyInsert pushed for one entry of dataMap; an optional object is a
\* sequence of zero or one element
CompanyInsertOf(vatNumber, data, contacts, counts) ==
    [vat_number |-> vatNumber,
     name |-> getBestDisplayName(data.names),
     slug |-> slugifyCompanyName(getBestDisplayName(data.names)),
     names |-> data.names,
     legal_form |-> data.legalForm,
     legal_form_code |-> data.legalFormCode,
     status |-> data.status,
     juridical_situation |-> data.juridicalSituation,
     start_date |-> data.startDate,
     address |-> data.address,
     contact |-> IF MapHas(contacts, vatNumber) /\ MapGet(contacts, vatNumber) # EmptyContact
                 THEN <<MapGet(contacts, vatNumber)>> ELSE <<>>,
     nace_codes |-> <<>>,
     establishment_count |-> IF MapHas(counts, vatNumber) THEN MapGet(counts, vatNumber) ELSE 0]

\* the test of the first loop looking at the French name only
HasDisplayName_frOnly(data) == Truthy(data.names.fr)

\* if (!displayName) { skipped++; continue; }
HasDisplayName(data) == Truthy(getBestDisplayName(data.names))

\* The first loop of batchInsertCompanies: validCompanies, in the order of dataMap
RECURSIVE ValidCompaniesOf(_, _, _)
ValidCompaniesOf(map, contacts, counts) ==
    IF map = <<>> THEN <<>>
    ELSE (IF HasDisplayName(Head(map).val)
          THEN <<CompanyInsertOf(Head(map).key, Head(map).val, contacts, counts)>>
          ELSE <<>>) \o ValidCompaniesOf(Tail(map), contacts, counts)

\* The first loop of batchInsertCompanies: skipped
SkippedOf(map) == Cardinality({i \in DOMAIN map : ~HasDisplayName(map[i].val)})

\* The columns of the companies table a CompanyInsert does not carry keep
\* their value on conflict and take their default on insert; updated_at is
\* the time of the statement, by its default NOW() on insert and by the
\* trigger companies_updated_at on conflict
RowOfInsert(company, table, now) ==
    [vat_number |-> company.vat_number,
     name |-> company.name,
     slug |-> company.slug,
     names |-> company.names,
     legal_form |-> company.legal_form,
     legal_form_code |-> company.legal_form_code,
     status |-> company.status,
     juridical_situation |-> company.juridical_situation,
     start_date |-> company.start_date,
     address |-> company.address,
     contact |-> company.contact,
     nace_codes |-> company.nace_codes,
     establishment_count |-> company.establishment_count,
     nace_main |-> IF company.vat_number \in DOMAIN table
                   THEN table[company.vat_number].nace_main ELSE UNDEF,
     updated_at |-> now]

\* .upsert(companies, { onConflict: 'vat_number', ignoreDuplicates: false })
\* when the store reports no error
UpsertRows(table, companies, now) ==
    LET keys == {companies[i].vat_number : i \in DOMAIN companies} IN
    [k \in DOMAIN table \cup keys |->
        IF k \in keys
        THEN RowOfInsert(companies[CHOOSE i \in DOMAIN companies : companies[i].vat_number = k],
                         table, now)
        ELSE table[k]]

\* batchUpsertFromKbo reporting the rows of a refused chunk as successes
batchUpsertFromKbo_countsRefused(table, companies, error, now) ==
    [table |-> IF error THEN table ELSE UpsertRows(table, companies, now),
     success |-> Len(companies), failed |-> 0]

\* batchUpsertFromKbo: the table and the result, error being the store's
\* answer; the count the store returns for an accepted chunk is its length
batchUpsertFromKbo(table, companies, error, now) ==
    IF error
    THEN [table |-> table, success |-> 0, failed |-> Len(companies)]
    ELSE [table |-> UpsertRows(table, companies, now), success |-> Len(companies), failed |-> 0]

\* ------------------------------------------------------------------------
\* Pass 7: streamActivityCodes and batchUpdateNaceCodes
\* ------------------------------------------------------------------------

SeqHas(s, x) == \E i \in DOMAIN s : s[i] = x

\* Only NACE 2008 or 2025 codes, of a key that normalizes
AcceptsActivity(row) ==
    /\ row.NaceVersion \in {"2008", "2025"}
    /\ normalizeVat(row.EntityNumber) # NULL

\* The entry of currentBatch after one accepted row
EntryAfterRow(entry, row) ==
    [codes |-> IF SeqHas(entry.codes, row.NaceCode) THEN entry.codes
               ELSE Append(entry.codes, row.NaceCode),
     main |-> IF row.Classification = "MAIN" /\ ~TruthyCode(entry.main)
              THEN row.NaceCode ELSE entry.main]

\* The loop body of streamActivityCodes up to the flush test
streamActivityRow(batch, row) ==
    IF ~AcceptsActivity(row) THEN batch
    ELSE LET vatNumber == normalizeVat(row.EntityNumber)
             entry == IF MapHas(batch, vatNumber) THEN MapGet(batch, vatNumber)
                      ELSE [codes |-> <<>>, main |-> UNDEF]
         IN  MapSet(batch, vatNumber, EntryAfterRow(entry, row))

\* Batch the updates to avoid too many concurrent requests
UpdateChunkSize == 100

\* an upsert in place of the update: a key the table does not hold gets a row
UpdateNaceRow_upserting(table, vatNumber, data, now) ==
    [k \in DOMAIN table \cup {vatNumber} |->
        IF k # vatNumber THEN table[k]
        ELSE IF k \in DOMAIN table
             THEN [table[k] EXCEPT !.nace_codes = data.codes,
                                   !.nace_main = IF TruthyCode(data.main) THEN data.main ELSE @,
                                   !.updated_at = now]
             ELSE [vat_number |-> vatNumber, nace_codes |-> data.codes, nace_main |-> data.main,
                   updated_at |-> now]]

\* .update(updateData).eq('vat_number', vatNumber) when the store reports no
\* error: a key the table does not hold matches no row; the trigger
\* companies_updated_at gives the row written the time of the statement
UpdateNaceRow(table, vatNumber, data, now) ==
    IF vatNumber \in DOMAIN table
    THEN [table EXCEPT ![vatNumber] =
            [@ EXCEPT !.nace_codes = data.codes,
                      !.nace_main = IF TruthyCode(data.main) THEN data.main ELSE @,
                      !.updated_at = now]]
    ELSE table

\* The updates of one slice of entries; they are on distinct keys
RECURSIVE UpdateNaceChunk(_, _, _, _)
UpdateNaceChunk(table, entries, failing, now) ==
    IF entries = <<>> THEN table
    ELSE UpdateNaceChunk(
            IF Head(entries).key \in failing THEN table
            ELSE UpdateNaceRow(table, Head(entries).key, Head(entries).val, now),
            Tail(entries), failing, now)

RECURSIVE UpdateNaceChunks(_, _, _, _)
UpdateNaceChunks(table, entries, failing, now) ==
    IF entries = <<>> THEN table
    ELSE UpdateNaceChunks(
            UpdateNaceChunk(table, slice(entries, 0, UpdateChunkSize), failing, now),
            SubSeq(entries, UpdateChunkSize + 1, Len(entries)), failing, now)

\* slice(i, i + batchSize) of n entries holds this many
ChunkLength(n, i) ==
    IF n - i >= UpdateChunkSize THEN UpdateChunkSize
    ELSE IF n - i > 0 THEN n - i ELSE 0

\* batchUpdateNaceCodes: the table and the counts, failing being the keys
\* whose update the store answers with an error
batchUpdateNaceCodes(table, naceCodeMap, failing, now) ==
    [table |-> UpdateNaceChunks(table, naceCodeMap, failing, now),
     updated |-> Cardinality({i \in DOMAIN naceCodeMap : naceCodeMap[i].key \notin failing}),
     mainCodes |-> Cardinality({i \in DOMAIN naceCodeMap :
                      naceCodeMap[i].key \notin failing /\ TruthyCode(naceCodeMap[i].val.main)})]

\* ------------------------------------------------------------------------
\* config.ts
\* ------------------------------------------------------------------------

\* process.env.X ?? ''
EnvOrEmpty(value) == IF value = UNDEF THEN "" ELSE value

\* the config object, as far as validateConfig reads it
ConfigOf(environment) ==
    [supabase |-> [url |-> EnvOrEmpty(environment.SUPABASE_URL),
                   serviceKey |-> EnvOrEmpty(environment.SUPABASE_SERVICE_KEY)]]

\* validateConfig without the test of the service key
validateConfig_urlOnly(config) ==
    IF config.supabase.url = ""
    THEN "Missing SUPABASE_URL environment variable"
    ELSE "ok"

\* validateConfig: the message of the Error it throws, "ok" when it returns
validateConfig(config) ==
    IF config.supabase.url = ""
    THEN "Missing SUPABASE_URL environment variable"
    ELSE IF config.supabase.serviceKey = ""
         THEN "Missing SUPABASE_SERVICE_KEY environment variable"
         ELSE "ok"

\* ------------------------------------------------------------------------
\* db/upsert.ts: the scheduler queries
\* ------------------------------------------------------------------------

\* An optional number (limit?: number, a nullable timestamp column) is the
\* sequence of no or one number. Time is in seconds.
DaySeconds == 24 * 60 * 60

\* const { limit = 100, olderThanDays = 30 } = options
DefaultLimit == 100

DefaultOlderThanDays == 30

OrDefault(opt, default) == IF opt = <<>> THEN default ELSE opt[1]

\* cutoffDate.setDate(cutoffDate.getDate() - olderThanDays)
cutoffDate(now, olderThanDays) == now - olderThanDays * DaySeconds

\* the filter with lt replaced by lte
NeedsEnrichment_orEqual(row, column, cutoff) ==
    row[column] = <<>> \/ row[column][1] <= cutoff

\* .or(`<column>.is.null,<column>.lt.${cutoffDate.toISOString()}`)
NeedsEnrichment(row, column, cutoff) ==
    row[column] = <<>> \/ row[column][1] < cutoff

\* .select('vat_number') of the rows of the table at the indices S, in the
\* order of the table
SelectVatNumbers(rows, S) ==
    LET F[i \in 0..Len(rows)] ==
            IF i = 0 THEN <<>>
            ELSE IF i \in S THEN Append(F[i - 1], [vat_number |-> rows[i].vat_number])
                 ELSE F[i - 1]
    IN  F[Len(rows)]

\* The answers the store may give to the filter with .limit(limit): the query
\* has no order, so any limit of the matching rows, all of them when they are
\* no more than limit
SelectStale(rows, column, cutoff, limit) ==
    LET matching == {i \in DOMAIN rows : NeedsEnrichment(rows[i], column, cutoff)}
        n == IF Cardinality(matching) < limit THEN Cardinality(matching) ELSE limit
    IN  {SelectVatNumbers(rows, S) : S \in {T \in SUBSET matching : Cardinality(T) = n}}

\* getCompaniesNeedingEnrichment(options) at time now: the arrays it may return
getCompaniesNeedingEnrichment(rows, now, options) ==
    SelectStale(rows, "last_enriched_at",
                cutoffDate(now, OrDefault(options.olderThanDays, DefaultOlderThanDays)),
                OrDefault(options.limit, DefaultLimit))

\* getCompaniesNeedingKboEnrichment(options)
getCompaniesNeedingKboEnrichment(rows, now, options) ==
    SelectStale(rows, "last_kbo_enriched_at",
                cutoffDate(now, OrDefault(options.olderThanDays, DefaultOlderThanDays)),
                OrDefault(options.limit, DefaultLimit))

\* ------------------------------------------------------------------------
\* crawlers/nbb-crawler.ts, crawlers/kbo-crawler.ts, db/upsert.ts: extraction
\* and the enrichment writers
\* ------------------------------------------------------------------------

\* config.nbb.requestRetries, the maxRequestRetries of both crawlers
requestRetries == 3

\* String.prototype.includes
includes(s, needle) ==
    \E i \in 0..(Len(s) - Len(needle)) : SubSeq(s, i + 1, i + Len(needle)) = needle

noDataIndicators ==
    <<<<"g", "e", "e", "n", " ", "j", "a", "a", "r", "r", "e", "k", "e", "n", "i", "n", "g", "e", "n">>,
      <<"n", "o", " ", "a", "n", "n", "u", "a", "l", " ", "a", "c", "c", "o", "u", "n", "t", "s">>,
      <<"a", "u", "c", "u", "n", " ", "c", "o", "m", "p", "t", "e", " ", "a", "n", "n", "u", "e", "l">>,
      <<"n", "o", "t", " ", "f", "o", "u", "n", "d">>,
      <<"n", "i", "e", "t", " ", "g", "e", "v", "o", "n", "d", "e", "n">>,
      <<"g", "e", "e", "n", " ", "g", "e", "g", "e", "v", "e", "n", "s">>>>

\* the test of the indicators without toLowerCase()
HasNoDataIndicator_caseSensitive(pageText) ==
    \E k \in DOMAIN noDataIndicators : includes(pageText, noDataIndicators[k])

\* noDataIndicators.some(indicator => pageText.toLowerCase().includes(indicator))
HasNoDataIndicator(pageText) ==
    \E k \in DOMAIN noDataIndicators :
        includes(toLowerCase(pageText), noDataIndicators[k])

\* RUBRIC_CODES
RUBRIC_CODES ==
    [TURNOVER |-> <<"70", "70/74", "9903">>,
     PROFIT_LOSS |-> <<"9904", "9905", "70/67">>,
     EQUITY |-> <<"10/15", "10/49">>,
     EMPLOYEES |-> <<"9087", "9097">>]

\* findByRubric: the value of the first code the data holds, as an optional
\* number
RECURSIVE findByRubric(_, _)
findByRubric(data, codes) ==
    IF codes = <<>> THEN <<>>
    ELSE IF MapHas(data, Head(codes)) THEN <<MapGet(data, Head(codes))>>
         ELSE findByRubric(data, Tail(codes))

\* extractFinancialData without the return on a missing year: the record
\* carries the year 0
extractFinancialData_noYearCheck(page, vatNumber) ==
    <<[vatNumber |-> vatNumber,
       year |-> IF page.year = <<>> THEN 0 ELSE page.year[1],
       turnover |-> findByRubric(page.csv, RUBRIC_CODES.TURNOVER),
       profitLoss |-> findByRubric(page.csv, RUBRIC_CODES.PROFIT_LOSS),
       equity |-> findByRubric(page.csv, RUBRIC_CODES.EQUITY),
       employees |-> findByRubric(page.csv, RUBRIC_CODES.EMPLOYEES)]>>

\* extractFinancialData on a page whose text gave the filing year page.year
\* (none when the pattern does not match) and whose CSV download parsed to
\* page.csv (empty when there is no button or the download fails); null is
\* the empty sequence. Values are whole numbers, which Math.round leaves as
\* they are.
extractFinancialData(page, vatNumber) ==
    IF page.year = <<>> \/ page.year[1] = 0 THEN <<>>
    ELSE <<[vatNumber |-> vatNumber,
            year |-> page.year[1],
            turnover |-> findByRubric(page.csv, RUBRIC_CODES.TURNOVER),
            profitLoss |-> findByRubric(page.csv, RUBRIC_CODES.PROFIT_LOSS),
            equity |-> findByRubric(page.csv, RUBRIC_CODES.EQUITY),
            employees |-> findByRubric(page.csv, RUBRIC_CODES.EMPLOYEES)]>>

\* JavaScript truthiness of an optional number
TruthyNumber(n) == n # <<>> /\ n[1] # 0

\* (profitLoss / turnover) * 100, kept as the quotient num / den
NetMargin(profitLoss, turnover) == [num |-> profitLoss * 100, den |-> turnover]

\* the test of enrichWithNbb on the presence of the two values rather than
\* on their truthiness
HasMarginData_present(nbbData) == nbbData.turnover # <<>> /\ nbbData.profitLoss # <<>>

\* if (nbbData.turnover && nbbData.profitLoss)
HasMarginData(nbbData) == TruthyNumber(nbbData.turnover) /\ TruthyNumber(nbbData.profitLoss)

\* the FinancialSummary enrichWithNbb builds
FinancialSummaryOf(nbbData) ==
    [year |-> nbbData.year,
     turnover |-> nbbData.turnover,
     profit_loss |-> nbbData.profitLoss,
     equity |-> nbbData.equity,
     employees |-> nbbData.employees,
     net_margin |-> IF HasMarginData(nbbData)
                    THEN <<NetMargin(nbbData.profitLoss[1], nbbData.turnover[1])>>
                    ELSE <<>>]

\* .update(update).eq('vat_number', vatNumber) on the rows of the table
UpdateWhereVat(rows, vatNumber, changed) ==
    [i \in DOMAIN rows |->
        IF rows[i].vat_number = vatNumber THEN changed[i] ELSE rows[i]]

\* CREATE TRIGGER companies_updated_at BEFORE UPDATE ON companies FOR EACH
\* ROW: the row an update writes carries the time of the statement
update_updated_at(row, now) == [row EXCEPT !.updated_at = now]

\* enrichWithNbb when the store reports no error
enrichWithNbb(rows, nbbData, now) ==
    UpdateWhereVat(rows, nbbData.vatNumber,
        [i \in DOMAIN rows |->
            update_updated_at(
                [rows[i] EXCEPT !.financial_summary = <<FinancialSummaryOf(nbbData)>>,
                                !.last_enriched_at = <<now>>],
                now)])

KboNoResultPhrases ==
    {<<"g", "e", "e", "n", " ", "r", "e", "s", "u", "l", "t", "a", "t", "e", "n">>,
     <<"n", "o", " ", "r", "e", "s", "u", "l", "t", "s">>,
     <<"a", "u", "c", "u", "n", " ", "r", "é", "s", "u", "l", "t", "a", "t">>}

\* extractKboData on a page: null when the text holds a no-result phrase (as
\* written, the test does not fold the case) or when reading the page throws;
\* a record otherwise, whatever was found
extractKboData(page, vatNumber) ==
    IF page.broken \/ \E p \in KboNoResultPhrases : includes(page.text, p) THEN <<>>
    ELSE <<[vatNumber |-> vatNumber,
            functions |-> page.functions,
            capital |-> page.capital,
            fiscalYearEnd |-> page.details.fiscalYearEnd,
            annualMeetingMonth |-> page.details.annualMeetingMonth,
            juridicalSituationDate |-> page.details.juridicalSituationDate,
            entityLinks |-> page.details.entityLinks,
            qualifications |-> page.details.qualifications,
            naceHistory |-> page.details.naceHistory,
            exceptionalFiscalPeriods |-> page.details.exceptionalFiscalPeriods]>>

\* enrichWithKbo writing the timestamp of the other source as well
enrichWithKbo_stampsBoth(rows, kboData, now) ==
    UpdateWhereVat(rows, kboData.vatNumber,
        [i \in DOMAIN rows |->
            [rows[i] EXCEPT !.functions = kboData.functions,
                            !.last_kbo_enriched_at = <<now>>,
                            !.last_enriched_at = <<now>>,
                            !.updated_at = now]])

\* enrichWithKbo when the store reports no error: functions and the
\* timestamp always, capital when it is not null, a string when it is truthy,
\* a list or the history when it is not empty
enrichWithKbo(rows, kboData, now) ==
    UpdateWhereVat(rows, kboData.vatNumber,
        [i \in DOMAIN rows |->
            update_updated_at(
                [rows[i] EXCEPT
                    !.functions = kboData.functions,
                    !.last_kbo_enriched_at = <<now>>,
                    !.capital = IF kboData.capital # <<>> THEN kboData.capital ELSE @,
                    !.fiscal_year_end =
                        IF Truthy(kboData.fiscalYearEnd) THEN kboData.fiscalYearEnd ELSE @,
                    !.annual_meeting_month =
                        IF Truthy(kboData.annualMeetingMonth)
                        THEN kboData.annualMeetingMonth ELSE @,
                    !.juridical_situation_date =
                        IF Truthy(kboData.juridicalSituationDate)
                        THEN kboData.juridicalSituationDate ELSE @,
                    !.entity_links =
                        IF Len(kboData.entityLinks) > 0 THEN kboData.entityLinks ELSE @,
                    !.qualifications =
                        IF Len(kboData.qualifications) > 0 THEN kboData.qualifications ELSE @,
                    !.nace_history =
                        IF Cardinality(MapKeys(kboData.naceHistory)) > 0
                        THEN kboData.naceHistory ELSE @,
                    !.exceptional_fiscal_periods =
                        IF Len(kboData.exceptionalFiscalPeriods) > 0
                        THEN kboData.exceptionalFiscalPeriods ELSE @],
                now)])

\* request.retryCount <= maxRequestRetries
CanBeRetried_oneMore(request) == request.retryCount <= requestRetries

\* the crawler retries a failed request while request.retryCount is below
\* maxRequestRetries
CanBeRetried(request) == request.retryCount < requestRetries

\* addRequest without the test of the uniqueKey
addRequest_noDedupe(queue, request) == Append(queue, request)

\* ------------------------------------------------------------------------
\* State
\* ------------------------------------------------------------------------

VARIABLES
    pc,                  \* where the run is: "pass1" .. "pass7", "upsert", "done", ...
    options,             \* ImportOptions: batchSize, dryRun, activeOnly, and
                         \* whether contactFile / establishmentFile are given;
                         \* an option is drawn where importKboData first reads
                         \* it (nothing before that point depends on it) and
                         \* is "unread" until then
    input,               \* the rows the parser of the current pass has yielded
    rowsLeft,            \* rows the input files still hold, over all passes
    dataMap,             \* Map<string, CompanyBuildData>
    vatNumbers,          \* new Set(dataMap.keys())
    contactMap,          \* Map<string, CompanyContact>
    establishmentCounts, \* Map<string, number>
    validCompanies,      \* CompanyInsert[] of batchInsertCompanies
    skipped,
    imported,
    chunkStart,          \* i of the chunk loop of batchInsertCompanies
    currentBatch,        \* Map<string, { codes, main }> of streamActivityCodes
    updated,
    mainCodes,
    store,               \* the companies table, by vat_number
    storeCalls,          \* the calls made to the store, in order
    result,              \* what importKboData returns
    cli,                 \* the parsed command line of an enrich-nbb run
    requestQueue,        \* the crawler's RequestQueue
    exitCode,            \* process.exit(code), -1 while the process runs
    vatInput,            \* the argument of the VAT utilities
    vatStage,
    vatResult,           \* validateVat(vatInput)
    vatFormatted,        \* formatVat(vatInput)
    vatRound,            \* normalizeVat(vatFormatted)
    namesInput,          \* the argument of getBestDisplayName
    namesStage,
    displayName,         \* its result
    env,                 \* process.env: SUPABASE_URL, SUPABASE_SERVICE_KEY
    argv,                \* parseArgs(process.argv.slice(2)): command, options
    mainPc,              \* where main() is
    stderr,              \* what console.error has written
    companyRows,         \* the enrichment columns of the companies table
    clock,               \* new Date(), in seconds
    selected,            \* the last call of a scheduler query and its answer
    source,              \* the crawler that runs: "nbb" or "kbo"
    handled,             \* uniqueKeys the queue has marked as handled
    inProgress,          \* per worker, the request it holds and where its
                         \* handler is
    dataset,             \* Dataset.pushData, in order
    attempts,            \* per uniqueKey, how many times it was fetched
    runKeys,             \* the vatNumbers the enrichment was run with
    flushPc,             \* where a call of batchUpdateNaceCodes is
    flushEntries,        \* entries.length
    flushIndex,          \* i of its chunk loop
    inFlight,            \* updates sent to the store and not answered yet
    chunkUpdated,        \* the answers without error of the chunk awaited
    flushUpdated,        \* updated
    flushErrors          \* the answers with an error since the call

importVars ==
    <<pc, options, input, rowsLeft, dataMap, vatNumbers, contactMap,
      establishmentCounts, validCompanies, skipped, imported, chunkStart,
      currentBatch, updated, mainCodes, store, storeCalls, result>>

enrichVars == <<cli, requestQueue, exitCode>>

vatVars == <<vatInput, vatStage, vatResult, vatFormatted, vatRound>>

namesVars == <<namesInput, namesStage, displayName>>

mainVars == <<env, argv, mainPc, stderr>>

crawlerVars == <<source, handled, inProgress, dataset, attempts, runKeys>>

crawlVars == <<companyRows, clock, selected, crawlerVars>>

flushVars ==
    <<flushPc, flushEntries, flushIndex, inFlight, chunkUpdated, flushUpdated,
      flushErrors>>

vars == <<importVars, enrichVars, vatVars, namesVars, mainVars, crawlVars, flushVars>>

\* ------------------------------------------------------------------------
\* Bounds and inputs
\* ------------------------------------------------------------------------

\* rows the input files of an import run hold in total
MaxImportRows == 4

\* the batch sizes tried (the default is 1000)
MaxBatchSize == 2

K1 == <<"0", "4", "1", "7", "4", "9", "7", "1", "0", "6">>

K2 == <<"0", "5", "4", "0", "9", "2", "1", "8", "8", "4">>

\* a valid key no identity row carries
KU == <<"0", "6", "6", "4", "3", "7", "8", "5", "3", "6">>

\* K1 with a wrong checksum
KBadChecksum == <<"0", "4", "1", "7", "4", "9", "7", "1", "0", "7">>

\* the grouped form the KBO files carry: 0417.497.106
Dotted(k) == slice(k, 0, 4) \o <<".">> \o slice(k, 4, 7) \o <<".">> \o slice(k, 7, 10)

EnterpriseSamples ==
    {[EnterpriseNumber |-> Dotted(K1), Status |-> "AC", JuridicalSituation |-> "000",
      TypeOfEnterprise |-> "2", JuridicalForm |-> "014", StartDate |-> <<"0", "9", "-", "0", "8", "-", "1", "9", "7", "7">>],
     [EnterpriseNumber |-> Dotted(K2), Status |-> "ST", JuridicalSituation |-> "999",
      TypeOfEnterprise |-> "2", JuridicalForm |-> "", StartDate |-> <<>>],
     [EnterpriseNumber |-> Dotted(K2), Status |-> "AC", JuridicalSituation |-> "050",
      TypeOfEnterprise |-> "2", JuridicalForm |-> "612", StartDate |-> <<"1", "-", "2", "-", "2", "0", "0", "3">>],
     [EnterpriseNumber |-> Dotted(KBadChecksum), Status |-> "AC", JuridicalSituation |-> "000",
      TypeOfEnterprise |-> "2", JuridicalForm |-> "014", StartDate |-> <<"0", "9", "-", "0", "8", "-", "1", "9", "7", "7">>],
     [EnterpriseNumber |-> Dotted(KU), Status |-> "AC", JuridicalSituation |-> "000",
      TypeOfEnterprise |-> "1", JuridicalForm |-> "", StartDate |-> <<>>],
     [EnterpriseNumber |-> <<"0", "4", "1", "7", ".", "4", "9", "7", ".", "1", "0">>, Status |-> "AC", JuridicalSituation |-> "000",
      TypeOfEnterprise |-> "2", JuridicalForm |-> "014", StartDate |-> <<>>]}

DenominationSamples ==
    {[EntityNumber |-> Dotted(K1), Language |-> "1", TypeOfDenomination |-> "001",
      Denomination |-> <<"I", "J", "s", " ", "&", " ", "C", "o">>],
     [EntityNumber |-> Dotted(K1), Language |-> "2", TypeOfDenomination |-> "001",
      Denomination |-> <<"B">>],
     [EntityNumber |-> Dotted(K2), Language |-> "0", TypeOfDenomination |-> "003",
      Denomination |-> <<"C">>]}

AddressSamples ==
    {[EntityNumber |-> Dotted(K1), TypeOfAddress |-> "REGO", Zipcode |-> <<"1", "0", "0", "0">>,
      MunicipalityNL |-> <<"C">>, MunicipalityFR |-> <<>>, StreetNL |-> <<"S">>,
      StreetFR |-> <<>>, HouseNumber |-> <<"1">>, Box |-> <<>>]}

ContactSamples ==
    {[EntityNumber |-> Dotted(K1), EntityContact |-> "ENT", ContactType |-> "EMAIL",
      Value |-> <<"A", "@", "b">>],
     [EntityNumber |-> Dotted(K2), EntityContact |-> "ENT", ContactType |-> "GSM",
      Value |-> <<"1">>]}

EstablishmentSamples ==
    {[EstablishmentNumber |-> <<"2", ".", "0", "0", "0", ".", "0", "0", "0", ".", "0", "0", "1">>, StartDate |-> <<>>,
      EnterpriseNumber |-> Dotted(K1)],
     [EstablishmentNumber |-> <<"2", ".", "0", "0", "0", ".", "0", "0", "0", ".", "0", "0", "2">>, StartDate |-> <<>>,
      EnterpriseNumber |-> Dotted(KU)]}

ActivitySamples ==
    {[EntityNumber |-> Dotted(K1), ActivityGroup |-> "001", NaceVersion |-> "2008",
      NaceCode |-> "62010", Classification |-> "MAIN"],
     [EntityNumber |-> Dotted(K2), ActivityGroup |-> "001", NaceVersion |-> "2003",
      NaceCode |-> "62010", Classification |-> "MAIN"]}

\* the options of a run that starts: only activeOnly is read by pass 1
ImportOptions ==
    [batchSize : {"unread"}, dryRun : {"unread"}, activeOnly : BOOLEAN,
     contactFile : {"unread"}, establishmentFile : {"unread"}]

\* the options while no import runs
NoOptions ==
    [batchSize |-> 1, dryRun |-> FALSE, activeOnly |-> TRUE,
     contactFile |-> FALSE, establishmentFile |-> FALSE]

NoResult == [imported |-> -1, skipped |-> -1, naceCodes |-> -1, contacts |-> -1]

\* ------------------------------------------------------------------------
\* importKboData
\* ------------------------------------------------------------------------

ImportIdle ==
    /\ pc = "idle"
    /\ options = NoOptions
    /\ input = <<>>
    /\ rowsLeft = 0
    /\ dataMap = <<>>
    /\ vatNumbers = {}
    /\ contactMap = <<>>
    /\ establishmentCounts = <<>>
    /\ validCompanies = <<>>
    /\ skipped = 0
    /\ imported = 0
    /\ chunkStart = 0
    /\ currentBatch = <<>>
    /\ updated = 0
    /\ mainCodes = 0
    /\ store = <<>>
    /\ storeCalls = <<>>
    /\ result = NoResult

EnrichIdle ==
    /\ cli = [vat |-> NULL]
    /\ requestQueue = <<>>
    /\ exitCode = -1

VatIdle ==
    /\ vatInput = NULL
    /\ vatStage = "idle"
    /\ vatResult = validateVat(NULL)
    /\ vatFormatted = NULL
    /\ vatRound = NULL

NamesIdle ==
    /\ namesInput = EmptyNames
    /\ namesStage = "idle"
    /\ displayName = NULL

\* no command line was given to main()
NoArgv ==
    [command |-> "none", help |-> FALSE, files |-> FALSE, dryRun |-> FALSE,
     batchSize |-> <<>>, limit |-> <<>>, olderThan |-> <<>>]

\* no scheduler query was made
NoQuery ==
    [column |-> "none", options |-> [limit |-> <<>>, olderThanDays |-> <<>>],
     error |-> FALSE, data |-> <<>>]

MainIdle ==
    /\ env = [SUPABASE_URL |-> UNDEF, SUPABASE_SERVICE_KEY |-> UNDEF]
    /\ argv = NoArgv
    /\ mainPc = "idle"
    /\ stderr = <<>>

\* batchUpdateNaceCodes is not running
FlushIdle ==
    /\ flushPc = "idle"
    /\ flushEntries = 0
    /\ flushIndex = 0
    /\ inFlight = 0
    /\ chunkUpdated = 0
    /\ flushUpdated = 0
    /\ flushErrors = 0

\* no crawler runs
CrawlerIdle ==
    /\ source = "nbb"
    /\ handled = {}
    /\ inProgress = <<>>
    /\ dataset = <<>>
    /\ attempts = <<>>
    /\ runKeys = <<>>

CrawlIdle ==
    /\ companyRows = <<>>
    /\ clock = 0
    /\ selected = NoQuery
    /\ CrawlerIdle

\* importKboData(options) is called on an empty table
InitImport ==
    /\ pc = "pass1"
    /\ options \in ImportOptions
    /\ input = <<>>
    /\ rowsLeft = MaxImportRows
    /\ dataMap = <<>>
    /\ vatNumbers = {}
    /\ contactMap = <<>>
    /\ establishmentCounts = <<>>
    /\ validCompanies = <<>>
    /\ skipped = 0
    /\ imported = 0
    /\ chunkStart = 0
    /\ currentBatch = <<>>
    /\ updated = 0
    /\ mainCodes = 0
    /\ store = <<>>
    /\ storeCalls = <<>>
    /\ result = NoResult
    /\ EnrichIdle /\ VatIdle /\ NamesIdle /\ FlushIdle
    /\ MainIdle /\ CrawlIdle

\* Pass 1: one row of enterprise.csv
EnterpriseRow(row) ==
    /\ pc = "pass1"
    /\ rowsLeft > 0
    /\ rowsLeft' = rowsLeft - 1
    /\ input' = Append(input, row)
    /\ dataMap' = parseEnterprisesRow(dataMap, row, options.activeOnly)
    /\ UNCHANGED <<pc, options, vatNumbers, contactMap, establishmentCounts,
                   validCompanies, skipped, imported, chunkStart, currentBatch,
                   updated, mainCodes, store, storeCalls, result>>
    /\ UNCHANGED <<enrichVars, vatVars, flushVars, namesVars, mainVars, crawlVars>>

\* parseEnterprises returns; vatNumbers = new Set(dataMap.keys())
EndEnterprises ==
    /\ pc = "pass1"
    /\ pc' = "pass2"
    /\ input' = <<>>
    /\ vatNumbers' = MapKeys(dataMap)
    /\ UNCHANGED <<options, rowsLeft, dataMap, contactMap, establishmentCounts,
                   validCompanies, skipped, imported, chunkStart, currentBatch,
                   updated, mainCodes, store, storeCalls, result>>
    /\ UNCHANGED <<enrichVars, vatVars, flushVars, namesVars, mainVars, crawlVars>>

\* Pass 2: one row of denomination.csv
DenominationRow(row) ==
    /\ pc = "pass2"
    /\ rowsLeft > 0
    /\ rowsLeft' = rowsLeft - 1
    /\ input' = Append(input, row)
    /\ dataMap' = enrichWithDenominationsRow(dataMap, row)
    /\ UNCHANGED <<pc, options, vatNumbers, contactMap, establishmentCounts,
                   validCompanies, skipped, imported, chunkStart, currentBatch,
                   updated, mainCodes, store, storeCalls, result>>
    /\ UNCHANGED <<enrichVars, vatVars, flushVars, namesVars, mainVars, crawlVars>>

EndDenominations ==
    /\ pc = "pass2"
    /\ pc' = "pass3"
    /\ input' = <<>>
    /\ UNCHANGED <<options, rowsLeft, dataMap, vatNumbers, contactMap,
                   establishmentCounts, validCompanies, skipped, imported,
                   chunkStart, currentBatch, updated, mainCodes, store,
                   storeCalls, result>>
    /\ UNCHANGED <<enrichVars, vatVars, flushVars, namesVars, mainVars, crawlVars>>

\* Pass 3: one row of address.csv
AddressRow(row) ==
    /\ pc = "pass3"
    /\ rowsLeft > 0
    /\ rowsLeft' = rowsLeft - 1
    /\ input' = Append(input, row)
    /\ dataMap' = enrichWithAddressesRow(dataMap, row)
    /\ UNCHANGED <<pc, options, vatNumbers, contactMap, establishmentCounts,
                   validCompanies, skipped, imported, chunkStart, currentBatch,
                   updated, mainCodes, store, storeCalls, result>>
    /\ UNCHANGED <<enrichVars, vatVars, flushVars, namesVars, mainVars, crawlVars>>

\* enrichWithAddresses returns; if (options.contactFile) pass 4 runs
EndAddresses(contactFile) ==
    /\ pc = "pass3"
    /\ options' = [options EXCEPT !.contactFile = contactFile]
    /\ pc' = IF contactFile THEN "pass4" ELSE "pass4skipped"
    /\ input' = <<>>
    /\ UNCHANGED <<rowsLeft, dataMap, vatNumbers, contactMap,
                   establishmentCounts, validCompanies, skipped, imported,
                   chunkStart, currentBatch, updated, mainCodes, store,
                   storeCalls, result>>
    /\ UNCHANGED <<enrichVars, vatVars, flushVars, namesVars, mainVars, crawlVars>>

\* Pass 4: one row of contact.csv
ContactRow(row) ==
    /\ pc = "pass4"
    /\ rowsLeft > 0
    /\ rowsLeft' = rowsLeft - 1
    /\ input' = Append(input, row)
    /\ contactMap' = parseContactsRow(contactMap, vatNumbers, row)
    /\ UNCHANGED <<pc, options, dataMap, vatNumbers, establishmentCounts,
                   validCompanies, skipped, imported, chunkStart, currentBatch,
                   updated, mainCodes, store, storeCalls, result>>
    /\ UNCHANGED <<enrichVars, vatVars, flushVars, namesVars, mainVars, crawlVars>>

\* parseContacts returns, or was not called; if (options.establishmentFile)
\* pass 5 runs
EndContacts(establishmentFile) ==
    /\ pc \in {"pass4", "pass4skipped"}
    /\ options' = [options EXCEPT !.establishmentFile = establishmentFile]
    /\ pc' = IF establishmentFile THEN "pass5" ELSE "pass6"
    /\ input' = <<>>
    /\ UNCHANGED <<rowsLeft, dataMap, vatNumbers, contactMap,
                   establishmentCounts, validCompanies, skipped, imported,
                   chunkStart, currentBatch, updated, mainCodes, store,
                   storeCalls, result>>
    /\ UNCHANGED <<enrichVars, vatVars, flushVars, namesVars, mainVars, crawlVars>>

\* Pass 5: one row of establishment.csv
EstablishmentRow(row) ==
    /\ pc = "pass5"
    /\ rowsLeft > 0
    /\ rowsLeft' = rowsLeft - 1
    /\ input' = Append(input, row)
    /\ establishmentCounts' = parseEstablishmentCountsRow(establishmentCounts, vatNumbers, row)
    /\ UNCHANGED <<pc, options, dataMap, vatNumbers, contactMap,
                   validCompanies, skipped, imported, chunkStart, currentBatch,
                   updated, mainCodes, store, storeCalls, result>>
    /\ UNCHANGED <<enrichVars, vatVars, flushVars, namesVars, mainVars, crawlVars>>

EndEstablishments ==
    /\ pc = "pass5"
    /\ pc' = "pass6"
    /\ input' = <<>>
    /\ UNCHANGED <<options, rowsLeft, dataMap, vatNumbers, contactMap,
                   establishmentCounts, validCompanies, skipped, imported,
                   chunkStart, currentBatch, updated, mainCodes, store,
                   storeCalls, result>>
    /\ UNCHANGED <<enrichVars, vatVars, flushVars, namesVars, mainVars, crawlVars>>

\* Pass 6, the first loop of batchInsertCompanies: validCompanies and skipped
FilterCompanies(batchSize, dryRun) ==
    /\ pc = "pass6"
    /\ pc' = "upsert"
    /\ options' = [options EXCEPT !.batchSize = batchSize, !.dryRun = dryRun]
    /\ validCompanies' = ValidCompaniesOf(dataMap, contactMap, establishmentCounts)
    /\ skipped' = SkippedOf(dataMap)
    /\ imported' = 0
    /\ chunkStart' = 0
    /\ UNCHANGED <<input, rowsLeft, dataMap, vatNumbers, contactMap,
                   establishmentCounts, currentBatch, updated, mainCodes, store,
                   storeCalls, result>>
    /\ UNCHANGED <<enrichVars, vatVars, flushVars, namesVars, mainVars, crawlVars>>

\* NOW() of the statements of a call of a writer, on a clock that ticks with
\* every such call
StatementTime == Len(storeCalls) + 1

\* validCompanies.slice(i, i + batchSize)
ChunkAt(companies, i, batchSize) == slice(companies, i, i + batchSize)

\* the chunk loop without the return that precedes it on a dry run
UpsertChunk_ignoringDryRun(error) ==
    /\ pc = "upsert"
    /\ chunkStart < Len(validCompanies)
    /\ LET batch == ChunkAt(validCompanies, chunkStart, options.batchSize)
           res == batchUpsertFromKbo(store, batch, error, StatementTime)
       IN  /\ store' = res.table
           /\ imported' = imported + res.success
           /\ storeCalls' = Append(storeCalls,
                 [op |-> "upsert", companies |-> batch, error |-> error])
    /\ chunkStart' = chunkStart + options.batchSize
    /\ UNCHANGED <<pc, options, input, rowsLeft, dataMap, vatNumbers, contactMap,
                   establishmentCounts, validCompanies, skipped, currentBatch,
                   updated, mainCodes, result>>
    /\ UNCHANGED <<enrichVars, vatVars, flushVars, namesVars, mainVars, crawlVars>>

\* One iteration of the chunk loop: await batchUpsertFromKbo(batch), the
\* store answering with an error or not
UpsertChunk(error) ==
    /\ pc = "upsert"
    /\ ~options.dryRun
    /\ chunkStart < Len(validCompanies)
    /\ LET batch == ChunkAt(validCompanies, chunkStart, options.batchSize)
           res == batchUpsertFromKbo(store, batch, error, StatementTime)
       IN  /\ store' = res.table
           /\ imported' = imported + res.success
           /\ storeCalls' = Append(storeCalls,
                 [op |-> "upsert", companies |-> batch, error |-> error])
    /\ chunkStart' = chunkStart + options.batchSize
    /\ UNCHANGED <<pc, options, input, rowsLeft, dataMap, vatNumbers, contactMap,
                   establishmentCounts, validCompanies, skipped, currentBatch,
                   updated, mainCodes, result>>
    /\ UNCHANGED <<enrichVars, vatVars, flushVars, namesVars, mainVars, crawlVars>>

\* batchInsertCompanies returning while chunks are left to submit
EndUpsert_beforeLastChunk ==
    /\ pc = "upsert"
    /\ pc' = "pass7"
    /\ validCompanies' = <<>>
    /\ chunkStart' = 0
    /\ dataMap' = <<>>
    /\ contactMap' = <<>>
    /\ establishmentCounts' = <<>>
    /\ UNCHANGED <<options, input, rowsLeft, vatNumbers, skipped, imported,
                   currentBatch, updated, mainCodes, store, storeCalls, result>>
    /\ UNCHANGED <<enrichVars, vatVars, flushVars, namesVars, mainVars, crawlVars>>

\* batchInsertCompanies returns, before the chunk loop on a dry run and after
\* it otherwise; importKboData clears its maps
EndUpsert ==
    /\ pc = "upsert"
    /\ options.dryRun \/ chunkStart >= Len(validCompanies)
    /\ pc' = "pass7"
    /\ validCompanies' = <<>>
    /\ chunkStart' = 0
    /\ dataMap' = <<>>
    /\ contactMap' = <<>>
    /\ establishmentCounts' = <<>>
    /\ UNCHANGED <<options, input, rowsLeft, vatNumbers, skipped, imported,
                   currentBatch, updated, mainCodes, store, storeCalls, result>>
    /\ UNCHANGED <<enrichVars, vatVars, flushVars, namesVars, mainVars, crawlVars>>

\* what importKboData returns
Summary(naceCodes) ==
    [imported |-> imported, skipped |-> skipped, naceCodes |-> naceCodes,
     contacts |-> Len(contactMap)]

\* Pass 7 on a dry run: streamActivityCodes returns at once
SkipActivity ==
    /\ pc = "pass7"
    /\ options.dryRun
    /\ pc' = "done"
    /\ result' = Summary(0)
    /\ UNCHANGED <<options, input, rowsLeft, dataMap, vatNumbers, contactMap,
                   establishmentCounts, validCompanies, skipped, imported,
                   chunkStart, currentBatch, updated, mainCodes, store, storeCalls>>
    /\ UNCHANGED <<enrichVars, vatVars, flushVars, namesVars, mainVars, crawlVars>>

\* the flush test with > in place of >=
FlushDue_overLimit(batch, row) == AcceptsActivity(row) /\ Len(batch) > options.batchSize

\* Flush batch when it reaches size limit
FlushDue(batch, row) == AcceptsActivity(row) /\ Len(batch) >= options.batchSize

\* Pass 7: one row of activity.csv, and the flush it triggers; failing are the
\* keys whose update the store answers with an error
ActivityRow(row, failing) ==
    /\ pc = "pass7"
    /\ ~options.dryRun
    /\ rowsLeft > 0
    /\ rowsLeft' = rowsLeft - 1
    /\ input' = Append(input, row)
    /\ LET batch == streamActivityRow(currentBatch, row) IN
       IF FlushDue(batch, row)
       THEN LET res == batchUpdateNaceCodes(store, batch, failing, StatementTime) IN
            /\ failing \in SUBSET MapKeys(batch)
            /\ store' = res.table
            /\ updated' = updated + res.updated
            /\ mainCodes' = mainCodes + res.mainCodes
            /\ currentBatch' = <<>>
            /\ storeCalls' = Append(storeCalls,
                  [op |-> "update", entries |-> batch, failing |-> failing])
       ELSE /\ failing = {}
            /\ currentBatch' = batch
            /\ UNCHANGED <<store, updated, mainCodes, storeCalls>>
    /\ UNCHANGED <<pc, options, dataMap, vatNumbers, contactMap,
                   establishmentCounts, validCompanies, skipped, imported,
                   chunkStart, result>>
    /\ UNCHANGED <<enrichVars, vatVars, flushVars, namesVars, mainVars, crawlVars>>

\* End of activity.csv: flush the remaining batch and return the summary
EndActivity(failing) ==
    /\ pc = "pass7"
    /\ ~options.dryRun
    /\ pc' = "done"
    /\ IF Len(currentBatch) > 0
       THEN LET res == batchUpdateNaceCodes(store, currentBatch, failing, StatementTime) IN
            /\ failing \in SUBSET MapKeys(currentBatch)
            /\ store' = res.table
            /\ updated' = updated + res.updated
            /\ mainCodes' = mainCodes + res.mainCodes
            /\ result' = Summary(updated + res.updated)
            /\ storeCalls' = Append(storeCalls,
                  [op |-> "update", entries |-> currentBatch, failing |-> failing])
       ELSE /\ failing = {}
            /\ result' = Summary(updated)
            /\ UNCHANGED <<store, updated, mainCodes, storeCalls>>
    /\ UNCHANGED <<options, input, rowsLeft, dataMap, vatNumbers, contactMap,
                   establishmentCounts, validCompanies, skipped, imported,
                   chunkStart, currentBatch>>
    /\ UNCHANGED <<enrichVars, vatVars, flushVars, namesVars, mainVars, crawlVars>>

\* the keys an activity flush may be answered with an error for
AllKeys == {K1, K2, KU}

\* ------------------------------------------------------------------------
\* index.ts: enrich-nbb in single company mode, and enqueueCompany
\* ------------------------------------------------------------------------

\* requestQueue.addRequest: a request whose uniqueKey is queued already is
\* not added again
addRequest(queue, request) ==
    IF \E i \in DOMAIN queue : queue[i].uniqueKey = request.uniqueKey
    THEN queue ELSE Append(queue, request)

\* enqueueCompany of the NBB crawler
enqueueCompany(queue, vatNumber) ==
    addRequest(queue,
        [url |-> <<"nbb", "consult-enterprise", vatNumber>>,
         uniqueKey |-> <<"nbb", vatNumber>>,
         userData |-> [vatNumber |-> vatNumber],
         retryCount |-> 0])

\* enqueueCompany of the KBO crawler; buildKboUrl groups the digits
enqueueCompanyKbo(queue, vatNumber) ==
    addRequest(queue,
        [url |-> <<"kbo", "zoeknummerform", Dotted(vatNumber)>>,
         uniqueKey |-> <<"kbo", vatNumber>>,
         userData |-> [vatNumber |-> vatNumber],
         retryCount |-> 0])

\* if (!normalized || !isValidVat(normalized)) process.exit(1)
RejectsCliVat(vat) == normalizeVat(vat) = NULL \/ ~isValidVat(normalizeVat(vat))

\* the strings given as --vat
CliVatInputs ==
    {K1, Dotted(K1), <<"B", "E">> \o K2, <<"b", "e", " ">> \o Dotted(KU),
     KBadChecksum, <<"B", "E", " ">> \o Dotted(KBadChecksum),
     <<"2">> \o SubSeq(K1, 2, 10), SubSeq(K1, 1, 9), <<"x">>}

InitEnrich ==
    /\ ImportIdle
    /\ pc = "idle"
    /\ cli \in [vat : CliVatInputs]
    /\ requestQueue = <<>>
    /\ exitCode = -1
    /\ VatIdle /\ NamesIdle /\ FlushIdle
    /\ MainIdle /\ CrawlIdle

\* runEnrichNbb with --vat: the key is enqueued, or the process exits with 1
RunEnrichNbb ==
    /\ pc = "idle"
    /\ exitCode = -1
    /\ cli.vat # NULL
    /\ requestQueue = <<>>
    /\ IF RejectsCliVat(cli.vat)
       THEN /\ exitCode' = 1
            /\ UNCHANGED requestQueue
       ELSE /\ requestQueue' = enqueueCompany(requestQueue, normalizeVat(cli.vat))
            /\ UNCHANGED exitCode
    /\ UNCHANGED <<cli, importVars, vatVars, flushVars, namesVars, mainVars, crawlVars>>

\* ------------------------------------------------------------------------
\* The import and the enrich command
\* ------------------------------------------------------------------------

Init == InitImport \/ InitEnrich

Next ==
    \/ \E row \in EnterpriseSamples : EnterpriseRow(row)
    \/ EndEnterprises
    \/ \E row \in DenominationSamples : DenominationRow(row)
    \/ EndDenominations
    \/ \E row \in AddressSamples : AddressRow(row)
    \/ \E contactFile \in BOOLEAN : EndAddresses(contactFile)
    \/ \E row \in ContactSamples : ContactRow(row)
    \/ \E establishmentFile \in BOOLEAN : EndContacts(establishmentFile)
    \/ \E row \in EstablishmentSamples : EstablishmentRow(row)
    \/ EndEstablishments
    \/ \E batchSize \in 1..MaxBatchSize, dryRun \in BOOLEAN : FilterCompanies(batchSize, dryRun)
    \/ \E error \in BOOLEAN : UpsertChunk(error)
    \/ EndUpsert
    \/ SkipActivity
    \/ \E row \in ActivitySamples, failing \in SUBSET AllKeys : ActivityRow(row, failing)
    \/ \E failing \in SUBSET AllKeys : EndActivity(failing)
    \/ RunEnrichNbb

Spec == Init /\ [][Next]_vars

\* ------------------------------------------------------------------------
\* Pass 7 alone: streamActivityCodes on a table that holds K1 and K2
\* ------------------------------------------------------------------------

\* rows activity.csv holds
MaxActivityRows == 3

ActivityRow_(key, version, code, classification) ==
    [EntityNumber |-> key, ActivityGroup |-> "001", NaceVersion |-> version,
     NaceCode |-> code, Classification |-> classification]

ActivityRows ==
    {ActivityRow_(Dotted(K1), "2008", "62010", "MAIN"),
     ActivityRow_(Dotted(K1), "2008", "47110", "MAIN"),
     ActivityRow_(Dotted(K1), "2008", "47110", "SECO"),
     ActivityRow_(Dotted(K1), "2025", "62010", "SECO"),
     ActivityRow_(Dotted(K1), "2003", "01110", "MAIN"),
     ActivityRow_(Dotted(K2), "2008", "62010", "MAIN"),
     ActivityRow_(Dotted(K2), "2025", "01110", "SECO"),
     ActivityRow_(Dotted(KU), "2008", "62010", "MAIN"),
     ActivityRow_(<<"0", "4", "1", "7", ".", "4", "9", "7">>, "2008", "62010", "MAIN")}

\* dataMap after passes 1 and 2 read an identity row and a name row of K1 and K2
NamedIndex ==
    LET e1 == CHOOSE r \in EnterpriseSamples :
                 r.EnterpriseNumber = Dotted(K1) /\ r.TypeOfEnterprise = "2"
        e2 == CHOOSE r \in EnterpriseSamples :
                 r.EnterpriseNumber = Dotted(K2) /\ r.Status = "AC"
        d1 == CHOOSE r \in DenominationSamples :
                 r.EntityNumber = Dotted(K1) /\ r.Language = "1"
        d2 == CHOOSE r \in DenominationSamples : r.EntityNumber = Dotted(K2)
    IN  enrichWithDenominationsRow(
            enrichWithDenominationsRow(
                parseEnterprisesRow(parseEnterprisesRow(<<>>, e1, TRUE), e2, TRUE),
                d1),
            d2)

\* importKboData has upserted K1 and K2 in one chunk and enters pass 7
InitActivity ==
    /\ pc = "pass7"
    /\ options \in [batchSize : 1..MaxBatchSize, dryRun : {FALSE}, activeOnly : {TRUE},
                    contactFile : {FALSE}, establishmentFile : {FALSE}]
    /\ input = <<>>
    /\ rowsLeft = MaxActivityRows
    /\ dataMap = <<>>
    /\ vatNumbers = {K1, K2}
    /\ contactMap = <<>>
    /\ establishmentCounts = <<>>
    /\ validCompanies = <<>>
    /\ skipped = 0
    /\ imported = 2
    /\ chunkStart = 0
    /\ currentBatch = <<>>
    /\ updated = 0
    /\ mainCodes = 0
    /\ store = UpsertRows(<<>>, ValidCompaniesOf(NamedIndex, <<>>, <<>>), 1)
    /\ storeCalls = <<[op |-> "upsert",
                       companies |-> ValidCompaniesOf(NamedIndex, <<>>, <<>>),
                       error |-> FALSE]>>
    /\ result = NoResult
    /\ EnrichIdle /\ VatIdle /\ NamesIdle /\ FlushIdle
    /\ MainIdle /\ CrawlIdle

NextActivity ==
    \/ \E row \in ActivityRows, failing \in SUBSET AllKeys : ActivityRow(row, failing)
    \/ \E failing \in SUBSET AllKeys : EndActivity(failing)

SpecActivity == InitActivity /\ [][NextActivity]_vars

\* the rows of activity.csv read so far that carry key k and an accepted version
AcceptedActivityRows(k) ==
    {i \in DOMAIN input :
        input[i].EntityNumber = Dotted(k) /\ input[i].NaceVersion \in {"2008", "2025"}}

\* the flushes that carried an entry for key k
FlushesOf(k) ==
    {c \in DOMAIN storeCalls :
        /\ storeCalls[c].op = "update"
        /\ \E e \in DOMAIN storeCalls[c].entries : storeCalls[c].entries[e].key = k}

\* the store answered no update with an error
NoUpdateFailed ==
    \A c \in DOMAIN storeCalls :
        storeCalls[c].op = "update" => storeCalls[c].failing = {}

\* C1: when pass 7 has completed, for every key the store holds whose accepted
\* rows fell into two or more flush batches, the stored nace_codes hold every
\* distinct accepted code of that key, each once.
C1_StoredCodesAreUnion ==
    (pc = "done" /\ NoUpdateFailed) =>
        \A k \in DOMAIN store :
            Cardinality(FlushesOf(k)) >= 2 =>
                /\ {store[k].nace_codes[i] : i \in DOMAIN store[k].nace_codes}
                      = {input[i].NaceCode : i \in AcceptedActivityRows(k)}
                /\ \A i, j \in DOMAIN store[k].nace_codes :
                      store[k].nace_codes[i] = store[k].nace_codes[j] => i = j

\* the accepted rows of key k classified MAIN
AcceptedMainRows(k) ==
    {i \in AcceptedActivityRows(k) : input[i].Classification = "MAIN"}

\* C2: when pass 7 has completed, the stored nace_main of a key is the code of
\* its first accepted MAIN row in source order, whichever flush that row and
\* the later MAIN rows fell in.
C2_MainIsFirstMainRow ==
    (pc = "done" /\ NoUpdateFailed) =>
        \A k \in DOMAIN store :
            AcceptedMainRows(k) # {} =>
                store[k].nace_main =
                    input[CHOOSE i \in AcceptedMainRows(k) :
                              \A j \in AcceptedMainRows(k) : i <= j].NaceCode

\* C3: after every completed flush, a stored record whose nace_main is set has
\* it among its nace_codes.
C3_MainAmongCodes ==
    \A k \in DOMAIN store :
        store[k].nace_main # UNDEF =>
            \E i \in DOMAIN store[k].nace_codes :
                store[k].nace_codes[i] = store[k].nace_main

\* ------------------------------------------------------------------------
\* getBestDisplayName on every combination of name fields
\* ------------------------------------------------------------------------

\* the value a name field holds when it is set
NameValue ==
    [fr |-> <<"F">>, nl |-> <<"N">>, de |-> <<"D">>, en |-> <<"E">>,
     abbreviation |-> <<"A">>, commercial |-> <<"C">>]

\* every CompanyNames whose fields are unset, empty or set
NamesInputs ==
    {n \in [NameFields -> {NULL, <<>>, <<"F">>, <<"N">>, <<"D">>, <<"E">>, <<"A">>, <<"C">>}] :
        \A f \in NameFields : n[f] \in {NULL, <<>>, NameValue[f]}}

InitNames ==
    /\ namesInput \in NamesInputs
    /\ namesStage = "input"
    /\ displayName = NULL
    /\ ImportIdle /\ EnrichIdle /\ VatIdle /\ FlushIdle
    /\ MainIdle /\ CrawlIdle

\* const displayName = getBestDisplayName(data.names)
ComputeDisplayName ==
    /\ namesStage = "input"
    /\ namesStage' = "computed"
    /\ displayName' = getBestDisplayName(namesInput)
    /\ UNCHANGED <<namesInput, importVars, enrichVars, vatVars, flushVars, mainVars, crawlVars>>

NextNames == ComputeDisplayName

SpecNames == InitNames /\ [][NextNames]_vars

\* the fixed order of the fallback
NamePriority == <<"fr", "nl", "de", "en", "commercial", "abbreviation">>

NameIsEmpty(v) == v = NULL \/ v = <<>>

\* C5: the display name is the first non-empty name in the order fr, nl, de,
\* en, commercial, abbreviation; a field is used only when every field before
\* it is empty, and there is no display name when all six are empty.
C5_DisplayNameIsFirstNonEmpty ==
    namesStage = "computed" =>
        /\ \A p \in 1..6 :
              (/\ ~NameIsEmpty(namesInput[NamePriority[p]])
               /\ \A q \in 1..(p - 1) : NameIsEmpty(namesInput[NamePriority[q]]))
              => displayName = namesInput[NamePriority[p]]
        /\ (\A p \in 1..6 : NameIsEmpty(namesInput[NamePriority[p]]))
              => displayName = NULL

\* the commercial name is used, the four official names being empty and the
\* abbreviation set
C5_Witness ==
    /\ namesStage = "computed"
    /\ \A f \in {"fr", "nl", "de", "en"} : NameIsEmpty(namesInput[f])
    /\ namesInput.commercial = <<"C">>
    /\ namesInput.abbreviation = <<"A">>
    /\ displayName = <<"C">>

\* ------------------------------------------------------------------------
\* Passes 2 to 4 alone, on the index pass 1 built from K1 and K2
\* ------------------------------------------------------------------------

\* rows denomination.csv, address.csv and contact.csv hold in total
MaxJoinRows == 3

DenominationRow_(key, type, language, denomination) ==
    [EntityNumber |-> key, Language |-> language, TypeOfDenomination |-> type,
     Denomination |-> denomination]

DenominationRows ==
    {DenominationRow_(Dotted(K1), "001", "1", <<"A", "1">>),
     DenominationRow_(Dotted(K1), "001", "1", <<"A", "2">>),
     DenominationRow_(Dotted(K1), "001", "2", <<"B", "1">>),
     DenominationRow_(Dotted(K1), "001", "2", <<"B", "2">>),
     DenominationRow_(Dotted(K1), "001", "3", <<"D", "1">>),
     DenominationRow_(Dotted(K1), "001", "4", <<"E", "1">>),
     DenominationRow_(Dotted(K1), "002", "0", <<"S", "1">>),
     DenominationRow_(Dotted(K1), "002", "1", <<"S", "2">>),
     DenominationRow_(Dotted(K1), "003", "0", <<"C", "1">>),
     DenominationRow_(Dotted(K1), "003", "2", <<"C", "2">>),
     DenominationRow_(Dotted(K1), "001", "1", <<>>),
     DenominationRow_(Dotted(K1), "004", "1", <<"X">>),
     DenominationRow_(Dotted(K2), "001", "1", <<"A", "3">>),
     DenominationRow_(Dotted(KU), "001", "1", <<"A", "4">>)}

AddressRow_(key, type, streetNL, streetFR, cityNL, cityFR, zipcode) ==
    [EntityNumber |-> key, TypeOfAddress |-> type, Zipcode |-> zipcode,
     MunicipalityNL |-> cityNL, MunicipalityFR |-> cityFR, StreetNL |-> streetNL,
     StreetFR |-> streetFR, HouseNumber |-> <<"1">>, Box |-> <<>>]

AddressRows ==
    {AddressRow_(Dotted(K1), "REGO", <<"S", "1">>, <<>>, <<"G", "1">>, <<>>, <<"1", "0", "0", "0">>),
     AddressRow_(Dotted(K1), "REGO", <<>>, <<"S", "2">>, <<>>, <<"G", "2">>, <<"9", "0", "0", "0">>),
     AddressRow_(Dotted(K1), "REGO", <<>>, <<>>, <<"G", "3">>, <<>>, <<"2", "0", "0", "0">>),
     AddressRow_(Dotted(K1), "BAET", <<"S", "4">>, <<>>, <<"G", "4">>, <<>>, <<"3", "0", "0", "0">>),
     AddressRow_(Dotted(K2), "REGO", <<"S", "5">>, <<>>, <<"G", "5">>, <<>>, <<>>),
     AddressRow_(Dotted(KU), "REGO", <<"S", "6">>, <<>>, <<"G", "6">>, <<>>, <<>>)}

ContactRow_(key, entity, type, value) ==
    [EntityNumber |-> key, EntityContact |-> entity, ContactType |-> type,
     Value |-> value]

ContactRows ==
    {ContactRow_(Dotted(K1), "ENT", "TEL", <<"1">>),
     ContactRow_(Dotted(K1), "ENT", "TEL", <<"2">>),
     ContactRow_(Dotted(K1), "ENT", "EMAIL", <<"A", "@", "b">>),
     ContactRow_(Dotted(K1), "ENT", "EMAIL", <<"c", "@", "D">>),
     ContactRow_(Dotted(K1), "ENT", "WEB", <<"w", ".", "b", "e">>),
     ContactRow_(Dotted(K1), "ENT", "WEB", <<"h", "t", "t", "p", ":", "/", "/", "x">>),
     ContactRow_(Dotted(K1), "ENT", "FAX", <<"3">>),
     ContactRow_(Dotted(K1), "ENT", "FAX", <<"4">>),
     ContactRow_(Dotted(K1), "ENT", "TEL", <<>>),
     ContactRow_(Dotted(K1), "EST", "TEL", <<"5">>),
     ContactRow_(Dotted(K1), "ENT", "GSM", <<"6">>),
     ContactRow_(Dotted(K2), "ENT", "EMAIL", <<"e", "@", "f">>),
     ContactRow_(Dotted(KU), "ENT", "TEL", <<"7">>)}

\* dataMap after pass 1 read an identity row of K1 and one of K2
IdentityIndex ==
    LET e1 == CHOOSE r \in EnterpriseSamples :
                 r.EnterpriseNumber = Dotted(K1) /\ r.TypeOfEnterprise = "2"
        e2 == CHOOSE r \in EnterpriseSamples :
                 r.EnterpriseNumber = Dotted(K2) /\ r.Status = "AC"
    IN  parseEnterprisesRow(parseEnterprisesRow(<<>>, e1, TRUE), e2, TRUE)

\* parseEnterprises has returned and pass 2 starts
InitJoin ==
    /\ pc = "pass2"
    /\ options = [batchSize |-> "unread", dryRun |-> "unread", activeOnly |-> TRUE,
                  contactFile |-> "unread", establishmentFile |-> "unread"]
    /\ input = <<>>
    /\ rowsLeft = MaxJoinRows
    /\ dataMap = IdentityIndex
    /\ vatNumbers = {K1, K2}
    /\ contactMap = <<>>
    /\ establishmentCounts = <<>>
    /\ validCompanies = <<>>
    /\ skipped = 0
    /\ imported = 0
    /\ chunkStart = 0
    /\ currentBatch = <<>>
    /\ updated = 0
    /\ mainCodes = 0
    /\ store = <<>>
    /\ storeCalls = <<>>
    /\ result = NoResult
    /\ EnrichIdle /\ VatIdle /\ NamesIdle /\ FlushIdle
    /\ MainIdle /\ CrawlIdle

NextJoin ==
    \/ \E row \in DenominationRows : DenominationRow(row)
    \/ EndDenominations
    \/ \E row \in AddressRows : AddressRow(row)
    \/ \E contactFile \in BOOLEAN : EndAddresses(contactFile)
    \/ \E row \in ContactRows : ContactRow(row)
    \/ \E establishmentFile \in BOOLEAN : EndContacts(establishmentFile)

SpecJoin == InitJoin /\ [][NextJoin]_vars

\* the name field a row of denomination.csv carries, by its type and language
NameFieldOfRow(row) ==
    CASE row.TypeOfDenomination = "001" /\ row.Language = "1" -> "fr"
      [] row.TypeOfDenomination = "001" /\ row.Language = "2" -> "nl"
      [] row.TypeOfDenomination = "001" /\ row.Language = "3" -> "de"
      [] row.TypeOfDenomination = "001" /\ row.Language = "4" -> "en"
      [] row.TypeOfDenomination = "002" -> "abbreviation"
      [] row.TypeOfDenomination = "003" -> "commercial"
      [] OTHER -> "none"

\* the rows read so far that carry a value for name field f of key k
NameRowsOf(k, f) ==
    {i \in DOMAIN input :
        /\ input[i].EntityNumber = Dotted(k)
        /\ input[i].Denomination # <<>>
        /\ NameFieldOfRow(input[i]) = f}

\* the rows read so far that carry a registered-office address of key k
\* with a street and a city
OfficeRowsOf(k) ==
    {i \in DOMAIN input :
        /\ input[i].EntityNumber = Dotted(k)
        /\ input[i].TypeOfAddress = "REGO"
        /\ (input[i].StreetFR # <<>> \/ input[i].StreetNL # <<>>)
        /\ (input[i].MunicipalityFR # <<>> \/ input[i].MunicipalityNL # <<>>)}

\* the rows read so far that carry an enterprise-level contact of the given
\* type for key k
ContactRowsOf(k, type) ==
    {i \in DOMAIN input :
        /\ input[i].EntityNumber = Dotted(k)
        /\ input[i].EntityContact = "ENT"
        /\ input[i].ContactType = type
        /\ input[i].Value # <<>>}

\* the first row of a non-empty set of rows
FirstRow(rows) == input[CHOOSE i \in rows : \A j \in rows : i <= j]

Optional(v) == IF v = <<>> THEN NULL ELSE v

\* the address a row of address.csv carries
AddressCarried(row) ==
    [street_fr |-> Optional(row.StreetFR), street_nl |-> Optional(row.StreetNL),
     number |-> Optional(row.HouseNumber), box |-> Optional(row.Box),
     postal_code |-> Optional(row.Zipcode), city_fr |-> Optional(row.MunicipalityFR),
     city_nl |-> Optional(row.MunicipalityNL), country |-> <<"B", "E">>]

\* a website as stored: with its scheme
WithScheme(v) ==
    IF Len(v) >= 4 /\ SubSeq(v, 1, 4) = <<"h", "t", "t", "p">> THEN v
    ELSE <<"h", "t", "t", "p", "s", ":", "/", "/">> \o v

ContactOf(k) == IF MapHas(contactMap, k) THEN MapGet(contactMap, k) ELSE EmptyContact

\* C4: at every point of the name, address and contact passes, each field of
\* each known key holds the value of the first row of the pass's input that
\* carries one (the e-mail lower-cased, the website with its scheme), and is
\* unset when no row carried one: later rows for a set field are ignored.
C4_FirstValueWins ==
    /\ pc = "pass2" =>
          \A k \in vatNumbers, f \in NameFields :
              MapGet(dataMap, k).names[f] =
                  IF NameRowsOf(k, f) = {} THEN NULL
                  ELSE FirstRow(NameRowsOf(k, f)).Denomination
    /\ pc = "pass3" =>
          \A k \in vatNumbers :
              MapGet(dataMap, k).address =
                  IF OfficeRowsOf(k) = {} THEN <<>>
                  ELSE <<AddressCarried(FirstRow(OfficeRowsOf(k)))>>
    /\ pc = "pass4" =>
          \A k \in vatNumbers :
              /\ ContactOf(k).phone =
                    IF ContactRowsOf(k, "TEL") = {} THEN NULL
                    ELSE FirstRow(ContactRowsOf(k, "TEL")).Value
              /\ ContactOf(k).email =
                    IF ContactRowsOf(k, "EMAIL") = {} THEN NULL
                    ELSE toLowerCase(FirstRow(ContactRowsOf(k, "EMAIL")).Value)
              /\ ContactOf(k).website =
                    IF ContactRowsOf(k, "WEB") = {} THEN NULL
                    ELSE WithScheme(FirstRow(ContactRowsOf(k, "WEB")).Value)
              /\ ContactOf(k).fax =
                    IF ContactRowsOf(k, "FAX") = {} THEN NULL
                    ELSE FirstRow(ContactRowsOf(k, "FAX")).Value

\* two rows carried different official French names of K1, and K1 holds the
\* first
C4_Witness ==
    /\ pc = "pass2"
    /\ \E i, j \in NameRowsOf(K1, "fr") :
          /\ i < j
          /\ input[i].Denomination # input[j].Denomination
          /\ MapGet(dataMap, K1).names.fr = input[i].Denomination

\* ------------------------------------------------------------------------
\* Properties of the import and of the enrich command
\* ------------------------------------------------------------------------

\* the rows handed to the store by the upsert calls, in order
RECURSIVE SubmittedCompanies(_)
SubmittedCompanies(calls) ==
    IF calls = <<>> THEN <<>>
    ELSE (IF Head(calls).op = "upsert" THEN Head(calls).companies ELSE <<>>)
         \o SubmittedCompanies(Tail(calls))

\* how many times key k was handed to the store
TimesSubmitted(k) ==
    Cardinality({j \in DOMAIN SubmittedCompanies(storeCalls) :
                    SubmittedCompanies(storeCalls)[j].vat_number = k})

AllNamesEmpty(names) == \A f \in NameFields : names[f] = NULL \/ names[f] = <<>>

UnnamedRecords == {i \in DOMAIN dataMap : AllNamesEmpty(dataMap[i].val.names)}

\* C6, as stated: when batchInsertCompanies has returned, every record of the
\* index was handed to the store in exactly one chunk or counted in skipped,
\* skipped counts the records without any name, no record without a display
\* name was handed over, and handed over + skipped = the size of the index.
C6_SubmittedOrSkipped ==
    /\ (pc = "upsert" /\ (options.dryRun \/ chunkStart >= Len(validCompanies))) =>
          /\ \A i \in DOMAIN dataMap :
                TimesSubmitted(dataMap[i].key) = IF i \in UnnamedRecords THEN 0 ELSE 1
          /\ skipped = Cardinality(UnnamedRecords)
          /\ Len(SubmittedCompanies(storeCalls)) + skipped = Cardinality(vatNumbers)
    /\ pc \in {"pass7", "done"} =>
          Len(SubmittedCompanies(storeCalls)) + skipped = Cardinality(vatNumbers)
    /\ \A j \in DOMAIN SubmittedCompanies(storeCalls) :
          SubmittedCompanies(storeCalls)[j].name \notin {NULL, <<>>}

\* C6, amended: the same when the dry-run flag is not set; on a dry run
\* nothing is handed to the store and skipped still counts the records
\* without any name.
C6_SubmittedOrSkippedUnlessDryRun ==
    /\ (pc = "upsert" /\ ~options.dryRun /\ chunkStart >= Len(validCompanies)) =>
          /\ \A i \in DOMAIN dataMap :
                TimesSubmitted(dataMap[i].key) = IF i \in UnnamedRecords THEN 0 ELSE 1
          /\ Len(SubmittedCompanies(storeCalls)) + skipped = Cardinality(vatNumbers)
    /\ pc = "upsert" => skipped = Cardinality(UnnamedRecords)
    /\ (pc \in {"pass7", "done"} /\ ~options.dryRun) =>
          Len(SubmittedCompanies(storeCalls)) + skipped = Cardinality(vatNumbers)
    /\ (pc \in {"upsert", "pass7", "done"} /\ options.dryRun) =>
          SubmittedCompanies(storeCalls) = <<>>
    /\ \A j \in DOMAIN SubmittedCompanies(storeCalls) :
          SubmittedCompanies(storeCalls)[j].name \notin {NULL, <<>>}

\* the chunk loop has ended with a record handed over and a record skipped
C6_Witness ==
    /\ pc = "upsert"
    /\ ~options.dryRun
    /\ chunkStart >= Len(validCompanies)
    /\ skipped >= 1
    /\ Len(SubmittedCompanies(storeCalls)) >= 1

\* the digits of a string, in order
DigitsOf(s) == SelectSeq(s, LAMBDA c : c \in DigitChars)

\* a normalized key: 10 digits, the first 0 or 1, the last two the mod-97
\* check of the first eight
IsChecksummedKey(k) ==
    /\ Len(k) = 10
    /\ \A i \in 1..10 : k[i] \in DigitChars
    /\ k[1] \in {"0", "1"}
    /\ LET d(i) == DigitVal(k[i])
           base == d(1) * 10000000 + d(2) * 1000000 + d(3) * 100000 + d(4) * 10000
                   + d(5) * 1000 + d(6) * 100 + d(7) * 10 + d(8)
           check == d(9) * 10 + d(10)
       IN  check \in 1..97 /\ (base + check) % 97 = 0

\* C9: every key the index holds and every key enqueued for enrichment is a
\* normalized 10-digit key that passes the mod-97 checksum; the index holds
\* only keys of identity rows that pass it, a command-line key that does not
\* pass it is not enqueued, and the import does not exit on a bad identity row.
C9_OnlyChecksummedKeysEnter ==
    /\ \A i \in DOMAIN dataMap :
          /\ IsChecksummedKey(dataMap[i].key)
          /\ dataMap[i].val.vatNumber = dataMap[i].key
    /\ \A k \in vatNumbers : IsChecksummedKey(k)
    /\ pc = "pass1" =>
          MapKeys(dataMap) \subseteq
              {DigitsOf(input[i].EnterpriseNumber) : i \in
                  {j \in DOMAIN input : IsChecksummedKey(DigitsOf(input[j].EnterpriseNumber))}}
    /\ \A i \in DOMAIN requestQueue :
          /\ IsChecksummedKey(requestQueue[i].userData.vatNumber)
          /\ requestQueue[i].userData.vatNumber = DigitsOf(cli.vat)
    /\ ~IsChecksummedKey(DigitsOf(cli.vat)) => requestQueue = <<>>
    /\ pc # "idle" => exitCode = -1

\* pass 1 read a row whose checksum fails, then a row of K1: only K1 is in
\* the index
C9_Witness ==
    /\ pc = "pass1"
    /\ \E i, j \in DOMAIN input :
          /\ i < j
          /\ input[i].EnterpriseNumber = Dotted(KBadChecksum)
          /\ input[j].EnterpriseNumber = Dotted(K1)
    /\ MapKeys(dataMap) = {K1}

\* the rows the store accepted, over the upsert calls
RECURSIVE AcceptedCount(_)
AcceptedCount(calls) ==
    IF calls = <<>> THEN 0
    ELSE (IF Head(calls).op = "upsert" /\ ~Head(calls).error
          THEN Len(Head(calls).companies) ELSE 0)
         + AcceptedCount(Tail(calls))

\* C10: a chunk the store refuses adds nothing to imported, and the import
\* goes on: the chunks after it are handed to the store, so that every named
\* record has been handed over when pass 7 starts, and the run reaches its
\* summary without exiting.
C10_RefusedChunkDoesNotAbort ==
    /\ pc \in {"upsert", "pass7", "done"} => imported = AcceptedCount(storeCalls)
    /\ (pc = "upsert" /\ ~options.dryRun) =>
          SubmittedCompanies(storeCalls) =
              SubSeq(validCompanies, 1,
                     IF chunkStart > Len(validCompanies) THEN Len(validCompanies)
                     ELSE chunkStart)
    /\ (pc \in {"pass7", "done"} /\ ~options.dryRun) =>
          Len(SubmittedCompanies(storeCalls)) = Cardinality(vatNumbers) - skipped
    /\ pc = "done" => result.imported = imported /\ exitCode = -1

\* the store refused a chunk, accepted a later one, and the run went through
\* pass 7 to its summary with only the later chunk counted
C10_Witness ==
    /\ pc = "done"
    /\ \E i, j \in DOMAIN storeCalls :
          /\ i < j
          /\ storeCalls[i].op = "upsert" /\ storeCalls[i].error
          /\ storeCalls[j].op = "upsert" /\ ~storeCalls[j].error
    /\ result.imported = 1
    /\ result.naceCodes = 0

\* ------------------------------------------------------------------------
\* utils/vat.ts on keys built from 8-digit bases, and on their mutations
\* ------------------------------------------------------------------------

\* the bases tried besides the edge cases: MaxBaseIdx + 1 of them, spread
\* over 00000000 .. 19999999 (97 of them meet every residue mod 97)
MaxBaseIdx == 96

VatBases ==
    {(4174971 + i * 1234567) % 20000000 : i \in 0..MaxBaseIdx}
        \cup {0, 96, 97, 5409218, 10000000, 19999999}

\* n in decimal, zero-padded to w digits
RECURSIVE Decimal(_, _)
Decimal(n, w) ==
    IF w = 0 THEN <<>> ELSE Decimal(n \div 10, w - 1) \o <<DigitSeq[(n % 10) + 1]>>

\* the key of a base: the base, then 97 - (base mod 97) on two digits
CanonicalKey(base) == Decimal(base, 8) \o Decimal(97 - (base % 97), 2)

CanonicalKeys == {CanonicalKey(b) : b \in VatBases}

\* the strings handed to the VAT utilities: keys, their written forms, and
\* strings that are no key
VatInputs ==
    CanonicalKeys
        \cup {<<"B", "E", " ">> \o Dotted(k) : k \in CanonicalKeys}
        \cup {<<"b", "e">> \o k : k \in CanonicalKeys}
        \cup {<<" ">> \o Dotted(k) \o <<" ">> : k \in CanonicalKeys}
        \cup {KBadChecksum, <<"2">> \o SubSeq(K1, 2, 10), SubSeq(K1, 1, 9), <<"x">>, <<>>}

InitVat ==
    /\ vatInput \in VatInputs
    /\ vatStage = "input"
    /\ vatResult = validateVat(NULL)
    /\ vatFormatted = NULL
    /\ vatRound = NULL
    /\ ImportIdle /\ EnrichIdle /\ NamesIdle /\ FlushIdle
    /\ MainIdle /\ CrawlIdle

\* validateVat(vatInput), on an input or on a mutated key
VatValidate ==
    /\ vatStage \in {"input", "mutated"}
    /\ vatStage' = IF vatStage = "input" THEN "validated" ELSE "mutantValidated"
    /\ vatResult' = validateVat(vatInput)
    /\ UNCHANGED <<vatInput, vatFormatted, vatRound, importVars, enrichVars, namesVars, flushVars, mainVars, crawlVars>>

\* formatVat(vatInput)
VatFormat ==
    /\ vatStage = "validated"
    /\ vatStage' = "formatted"
    /\ vatFormatted' = formatVat(vatInput)
    /\ UNCHANGED <<vatInput, vatResult, vatRound, importVars, enrichVars, namesVars, flushVars, mainVars, crawlVars>>

\* normalizeVat of the formatted string
VatNormalizeFormatted ==
    /\ vatStage = "formatted"
    /\ vatStage' = "renormalized"
    /\ vatRound' = normalizeVat(vatFormatted)
    /\ UNCHANGED <<vatInput, vatResult, vatFormatted, importVars, enrichVars, namesVars, flushVars, mainVars, crawlVars>>

\* a caller passes on a valid key with its digit at position i replaced by d
VatMutate(i, d) ==
    /\ vatStage = "renormalized"
    /\ vatResult.isValid
    /\ vatResult.normalized[i] # d
    /\ vatStage' = "mutated"
    /\ vatInput' = [vatResult.normalized EXCEPT ![i] = d]
    /\ vatResult' = validateVat(NULL)
    /\ vatFormatted' = NULL
    /\ vatRound' = NULL
    /\ UNCHANGED <<importVars, enrichVars, namesVars, flushVars, mainVars, crawlVars>>

NextVat ==
    \/ VatValidate
    \/ VatFormat
    \/ VatNormalizeFormatted
    \/ \E i \in 1..10, d \in DigitChars : VatMutate(i, d)

SpecVat == InitVat /\ [][NextVat]_vars

\* C7: a key obtained from a valid key by replacing one digit with another
\* digit fails validateVat, on its format or on its checksum.
C7_SingleDigitMutationFails ==
    vatStage = "mutantValidated" =>
        /\ ~vatResult.isValid
        /\ vatResult.error \in {"format", "checksum"}

\* K1 with its fifth digit replaced was validated and failed on the checksum
C7_Witness ==
    /\ vatStage = "mutantValidated"
    /\ \E d \in DigitChars : d # K1[5] /\ vatInput = [K1 EXCEPT ![5] = d]
    /\ vatResult.error = "checksum"

\* C8: the key of an 8-digit base beginning with 0 or 1 normalizes to itself,
\* passes validateVat, and comes back from normalizeVat(formatVat(key))
\* unchanged, formatVat giving it as BE dddd.ddd.ddd.
C8_CanonicalKeyRoundTrips ==
    vatInput \in CanonicalKeys =>
        /\ vatStage \in {"validated", "formatted", "renormalized"} =>
              /\ vatResult.isValid
              /\ vatResult.normalized = vatInput
        /\ vatStage \in {"formatted", "renormalized"} =>
              vatFormatted =
                  <<"B", "E", " ">> \o SubSeq(vatInput, 1, 4) \o <<".">>
                      \o SubSeq(vatInput, 5, 7) \o <<".">> \o SubSeq(vatInput, 8, 10)
        /\ vatStage = "renormalized" => vatRound = vatInput

\* the key of base 00000096, whose checksum 01 is zero-padded, went round
C8_Witness ==
    /\ vatStage = "renormalized"
    /\ vatInput = CanonicalKey(96)
    /\ vatInput = <<"0", "0", "0", "0", "0", "0", "9", "6", "0", "1">>
    /\ vatRound = vatInput

\* ------------------------------------------------------------------------
\* The summary of importKboData and the writes the store refused
\* ------------------------------------------------------------------------

\* the records of the upsert chunks the store refused
RECURSIVE RefusedRecords(_)
RefusedRecords(calls) ==
    IF calls = <<>> THEN 0
    ELSE (IF Head(calls).op = "upsert" /\ Head(calls).error
          THEN Len(Head(calls).companies) ELSE 0)
         + RefusedRecords(Tail(calls))

\* the per-key activity updates the store answered with an error
RECURSIVE FailedUpdates(_)
FailedUpdates(calls) ==
    IF calls = <<>> THEN 0
    ELSE (IF Head(calls).op = "update" THEN Cardinality(Head(calls).failing) ELSE 0)
         + FailedUpdates(Tail(calls))

\* the summary of a run that handed nothing to the store
EmptyRunSummary == [imported |-> 0, skipped |-> 0, naceCodes |-> 0, contacts |-> 0]

\* C11: the summary importKboData returns reports the writes the store
\* refused, so that a refused record can be told apart from a record that
\* was never submitted: a run whose summary is the summary of a run that
\* submitted nothing has no refused upsert record and no failed update.
C11_SummaryReportsFailures ==
    (pc = "done" /\ result = EmptyRunSummary) =>
        /\ RefusedRecords(storeCalls) = 0
        /\ FailedUpdates(storeCalls) = 0

\* ------------------------------------------------------------------------
\* The dry run
\* ------------------------------------------------------------------------

\* C12: with dryRun set, batchInsertCompanies and streamActivityCodes return
\* before their first call to the store: no upsert and no update is issued
\* in any pass, the table is as it was when the run started, imported and
\* naceCodes of the summary are 0, and skipped still counts the records of
\* the index that have no name.
C12_DryRunWritesNothing ==
    /\ (pc \in {"upsert", "pass7", "done"} /\ options.dryRun) =>
          /\ storeCalls = <<>>
          /\ store = <<>>
          /\ imported = 0
          /\ updated = 0
    /\ (pc = "upsert" /\ options.dryRun) => skipped = Cardinality(UnnamedRecords)
    /\ (pc = "done" /\ options.dryRun) =>
          /\ result.imported = 0
          /\ result.naceCodes = 0
          /\ result.skipped = skipped

\* a dry run over an index that holds a named and an unnamed record has
\* returned: one record is counted as skipped, nothing was written
C12_Witness ==
    /\ pc = "done"
    /\ options.dryRun
    /\ result.skipped = 1
    /\ Cardinality(vatNumbers) = 2
    /\ storeCalls = <<>>

\* ------------------------------------------------------------------------
\* The scheduler queries on a table of three companies
\* ------------------------------------------------------------------------

\* the largest limit a query is given
MaxLimit == 2

\* new Date() when the query runs
Now == 100 * DaySeconds

\* updated_at of a row: the time of the later of its enrichment writes, the
\* time 0 of the import when it was never enriched
LastWriteOf(lastEnrichedAt, lastKboEnrichedAt) ==
    LET a == IF lastEnrichedAt = <<>> THEN 0 ELSE lastEnrichedAt[1]
        b == IF lastKboEnrichedAt = <<>> THEN 0 ELSE lastKboEnrichedAt[1]
    IN  IF a >= b THEN a ELSE b

\* a row of the companies table, as the enrichment reads and writes it
CompanyRow(vatNumber, lastEnrichedAt, lastKboEnrichedAt) ==
    [vat_number |-> vatNumber,
     financial_summary |-> <<>>,
     last_enriched_at |-> lastEnrichedAt,
     last_kbo_enriched_at |-> lastKboEnrichedAt,
     functions |-> <<>>,
     capital |-> <<>>,
     fiscal_year_end |-> NULL,
     annual_meeting_month |-> NULL,
     juridical_situation_date |-> NULL,
     entity_links |-> <<>>,
     qualifications |-> <<>>,
     nace_history |-> <<>>,
     exceptional_fiscal_periods |-> <<>>,
     updated_at |-> LastWriteOf(lastEnrichedAt, lastKboEnrichedAt)]

\* the two timestamps of a row: never enriched; enriched one second before,
\* exactly at and one second after the cutoff of one day; one second before
\* the cutoff of 30 days; at the time of the query
StampPairs ==
    {<<<<>>, <<>>>>,
     <<<<Now - DaySeconds - 1>>, <<Now - DaySeconds>>>>,
     <<<<Now - DaySeconds>>, <<Now - DaySeconds + 1>>>>,
     <<<<Now - DaySeconds + 1>>, <<Now - DefaultOlderThanDays * DaySeconds - 1>>>>,
     <<<<Now - DefaultOlderThanDays * DaySeconds - 1>>, <<Now>>>>,
     <<<<Now>>, <<Now - DaySeconds - 1>>>>}

QueryOptions ==
    [limit : {<<>>} \cup {<<n>> : n \in 0..MaxLimit},
     olderThanDays : {<<>>, <<0>>, <<1>>}]

InitScheduler ==
    /\ ImportIdle /\ EnrichIdle /\ VatIdle /\ NamesIdle /\ FlushIdle /\ MainIdle
    /\ clock = Now
    /\ \E p1, p2, p3 \in StampPairs :
          companyRows = <<CompanyRow(K1, p1[1], p1[2]),
                          CompanyRow(K2, p2[1], p2[2]),
                          CompanyRow(KU, p3[1], p3[2])>>
    /\ selected = NoQuery
    /\ CrawlerIdle

\* await getCompaniesNeedingEnrichment(options): the store answers with an
\* error, which is thrown, or with rows
QueryNbb(opts, error) ==
    /\ IF error
       THEN selected' = [column |-> "last_enriched_at", options |-> opts,
                         error |-> TRUE, data |-> <<>>]
       ELSE \E data \in getCompaniesNeedingEnrichment(companyRows, clock, opts) :
               selected' = [column |-> "last_enriched_at", options |-> opts,
                            error |-> FALSE, data |-> data]
    /\ UNCHANGED <<companyRows, clock, crawlerVars>>
    /\ UNCHANGED <<importVars, enrichVars, vatVars, flushVars, namesVars, mainVars>>

\* await getCompaniesNeedingKboEnrichment(options)
QueryKbo(opts, error) ==
    /\ IF error
       THEN selected' = [column |-> "last_kbo_enriched_at", options |-> opts,
                         error |-> TRUE, data |-> <<>>]
       ELSE \E data \in getCompaniesNeedingKboEnrichment(companyRows, clock, opts) :
               selected' = [column |-> "last_kbo_enriched_at", options |-> opts,
                            error |-> FALSE, data |-> data]
    /\ UNCHANGED <<companyRows, clock, crawlerVars>>
    /\ UNCHANGED <<importVars, enrichVars, vatVars, flushVars, namesVars, mainVars>>

NextScheduler ==
    \/ \E opts \in QueryOptions, error \in BOOLEAN : QueryNbb(opts, error)
    \/ \E opts \in QueryOptions, error \in BOOLEAN : QueryKbo(opts, error)

SpecScheduler == InitScheduler /\ [][NextScheduler]_vars

\* the limit and the threshold in days a query ran with
LimitOf(query) == IF query.options.limit = <<>> THEN 100 ELSE query.options.limit[1]

DaysOf(query) ==
    IF query.options.olderThanDays = <<>> THEN 30 ELSE query.options.olderThanDays[1]

\* the row of key k
RowOfKey(k) == companyRows[CHOOSE i \in DOMAIN companyRows : companyRows[i].vat_number = k]

\* the timestamp of the source the query is about is null or strictly older
\* than now minus D days
StaleFor(row, query) ==
    LET stamp == IF query.column = "last_enriched_at" THEN row.last_enriched_at
                 ELSE row.last_kbo_enriched_at
    IN  stamp = <<>> \/ stamp[1] < clock - DaysOf(query) * 86400

\* C14: a scheduler query for a source, with limit L and a threshold of D
\* days, returns at most L keys, each the key of a row of the table, no key
\* twice; the timestamp of that source on every returned row is null or
\* strictly older than now minus D days, so no row whose timestamp is at or
\* after the cutoff is returned; and the query leaves the table as it was.
C14_QuerySelectsStaleKeys ==
    /\ [](selected.column # "none" =>
            /\ Len(selected.data) <= LimitOf(selected)
            /\ \A i \in DOMAIN selected.data :
                  /\ \E j \in DOMAIN companyRows :
                        companyRows[j].vat_number = selected.data[i].vat_number
                  /\ StaleFor(RowOfKey(selected.data[i].vat_number), selected)
            /\ \A i, j \in DOMAIN selected.data :
                  selected.data[i].vat_number = selected.data[j].vat_number => i = j
            /\ selected.error => selected.data = <<>>)
    /\ [][companyRows' = companyRows]_vars

\* a query with limit 2 and a threshold of one day on a table whose three
\* rows are all stale returned two keys, and the table also holds rows
\* enriched exactly at the cutoff in the other column
C14_Witness ==
    /\ selected.column = "last_enriched_at"
    /\ selected.options = [limit |-> <<2>>, olderThanDays |-> <<1>>]
    /\ Len(selected.data) = 2
    /\ \A i \in DOMAIN companyRows : StaleFor(companyRows[i], selected)
    /\ \E i \in DOMAIN companyRows : companyRows[i].last_kbo_enriched_at = <<Now - DaySeconds>>

\* ------------------------------------------------------------------------
\* index.ts: main()
\* ------------------------------------------------------------------------

\* rows the input files hold in a run started from the command line
MaxMainRows == 2

\* parseInt(options['batch-size'], 10) || 1000, and the like: the option is
\* absent or no number (no element), or a number
CliDefaultBatchSize == 1000

CliDefaultLimit == 100

CliDefaultOlderThan == 30

CliNumber(opt, default) == IF opt = <<>> \/ opt[1] = 0 THEN default ELSE opt[1]

\* the values of an environment variable: unset, empty, set
EnvValues == {UNDEF, "", "set"}

\* command lines: the command (help when none is given, enrich-kbo being no
\* command of main), --help, whether the four CSV options are given, --dry-run,
\* --batch-size, --limit, --older-than
ArgvSamples ==
    [command : {"help", "import-kbo", "enrich-nbb", "enrich-kbo"}, help : BOOLEAN,
     files : BOOLEAN, dryRun : {FALSE}, batchSize : {<<>>},
     limit : {<<>>}, olderThan : {<<>>}]
    \cup
    [command : {"import-kbo"}, help : {FALSE}, files : {TRUE}, dryRun : BOOLEAN,
     batchSize : {<<>>, <<1>>}, limit : {<<>>}, olderThan : {<<>>}]
    \cup
    [command : {"enrich-nbb"}, help : {FALSE}, files : {FALSE}, dryRun : {FALSE},
     batchSize : {<<>>}, limit : {<<>>, <<0>>, <<1>>}, olderThan : {<<>>, <<1>>}]

\* the table an enrich run finds: K1 never enriched, K2 enriched before the
\* cutoff of 30 days, KU enriched two days ago
MainTable ==
    <<CompanyRow(K1, <<>>, <<>>),
      CompanyRow(K2, <<Now - DefaultOlderThanDays * DaySeconds - 1>>, <<>>),
      CompanyRow(KU, <<Now - 2 * DaySeconds>>, <<>>)>>

InitMain ==
    /\ ImportIdle /\ VatIdle /\ NamesIdle /\ FlushIdle
    /\ env \in [SUPABASE_URL : EnvValues, SUPABASE_SERVICE_KEY : EnvValues]
    /\ argv \in ArgvSamples
    /\ cli \in [vat : IF argv.command = "enrich-nbb"
                      THEN {NULL, Dotted(K1), KBadChecksum} ELSE {NULL}]
    /\ mainPc = "start"
    /\ stderr = <<>>
    /\ requestQueue = <<>>
    /\ exitCode = -1
    /\ companyRows = MainTable
    /\ clock = Now
    /\ selected = NoQuery
    /\ CrawlerIdle

\* main() up to the call of importKboData or of runEnrichNbb: help, then
\* validateConfig, then the switch on the command; runImportKbo up to its
\* test of the four file options
MainStart ==
    /\ mainPc = "start"
    /\ IF argv.command = "help" \/ argv.help
       THEN /\ exitCode' = 0
            /\ mainPc' = "exited"
            /\ UNCHANGED <<stderr, pc, rowsLeft, options>>
       ELSE IF validateConfig(ConfigOf(env)) # "ok"
       THEN /\ stderr' = Append(stderr,
                  <<"Configuration error", validateConfig(ConfigOf(env))>>)
            /\ exitCode' = 1
            /\ mainPc' = "exited"
            /\ UNCHANGED <<pc, rowsLeft, options>>
       ELSE IF argv.command = "import-kbo"
       THEN IF ~argv.files
            THEN /\ stderr' = Append(stderr, <<"Error: All CSV files are required">>)
                 /\ exitCode' = 1
                 /\ mainPc' = "exited"
                 /\ UNCHANGED <<pc, rowsLeft, options>>
            ELSE /\ mainPc' = "import-kbo"
                 /\ pc' = "pass1"
                 /\ rowsLeft' = MaxMainRows
                 /\ options' = [batchSize |-> "unread", dryRun |-> "unread",
                                activeOnly |-> TRUE, contactFile |-> "unread",
                                establishmentFile |-> "unread"]
                 /\ UNCHANGED <<stderr, exitCode>>
       ELSE IF argv.command = "enrich-nbb"
       THEN /\ mainPc' = "enrich-nbb"
            /\ UNCHANGED <<stderr, exitCode, pc, rowsLeft, options>>
       ELSE /\ stderr' = Append(stderr, <<"Unknown command", argv.command>>)
            /\ exitCode' = 1
            /\ mainPc' = "exited"
            /\ UNCHANGED <<pc, rowsLeft, options>>
    /\ UNCHANGED <<input, dataMap, vatNumbers, contactMap, establishmentCounts,
                   validCompanies, skipped, imported, chunkStart, currentBatch,
                   updated, mainCodes, store, storeCalls, result>>
    /\ UNCHANGED <<env, argv, cli, requestQueue>>
    /\ UNCHANGED <<vatVars, flushVars, namesVars, crawlVars>>

\* importKboData has returned: runImportKbo logs the counts and main returns
MainImportDone ==
    /\ mainPc = "import-kbo"
    /\ pc = "done"
    /\ mainPc' = "returned"
    /\ UNCHANGED <<env, argv, stderr>>
    /\ UNCHANGED <<importVars, enrichVars, vatVars, flushVars, namesVars, crawlVars>>

\* enqueueCompaniesNeedingEnrichment: one request per company returned
RECURSIVE EnqueueAll(_, _)
EnqueueAll(queue, data) ==
    IF data = <<>> THEN queue
    ELSE EnqueueAll(enqueueCompany(queue, Head(data).vat_number), Tail(data))

\* runEnrichNbb in batch mode: runNbbEnrichmentFromDb({ limit, olderThanDays })
\* up to crawler.run(); an error of the query is caught by main
MainEnrichFromDb(error) ==
    /\ mainPc = "enrich-nbb"
    /\ ~Truthy(cli.vat)
    /\ LET opts == [limit |-> <<CliNumber(argv.limit, CliDefaultLimit)>>,
                    olderThanDays |-> <<CliNumber(argv.olderThan, CliDefaultOlderThan)>>]
       IN  IF error
           THEN /\ selected' = [column |-> "last_enriched_at", options |-> opts,
                                error |-> TRUE, data |-> <<>>]
                /\ exitCode' = 1
                /\ mainPc' = "exited"
                /\ UNCHANGED requestQueue
           ELSE \E data \in getCompaniesNeedingEnrichment(companyRows, clock, opts) :
                /\ selected' = [column |-> "last_enriched_at", options |-> opts,
                                error |-> FALSE, data |-> data]
                /\ requestQueue' = EnqueueAll(requestQueue, data)
                /\ mainPc' = IF Len(data) = 0 THEN "returned" ELSE "crawling"
                /\ UNCHANGED exitCode
    /\ UNCHANGED <<env, argv, stderr, cli>>
    /\ UNCHANGED <<companyRows, clock, crawlerVars>>
    /\ UNCHANGED <<importVars, vatVars, flushVars, namesVars>>

NextMain ==
    \/ MainStart
    \/ \E row \in EnterpriseSamples : EnterpriseRow(row)
    \/ EndEnterprises
    \/ \E row \in DenominationSamples : DenominationRow(row)
    \/ EndDenominations
    \/ \E row \in AddressSamples : AddressRow(row)
    \/ EndAddresses(FALSE)
    \/ EndContacts(FALSE)
    \/ FilterCompanies(CliNumber(argv.batchSize, CliDefaultBatchSize), argv.dryRun)
    \/ \E error \in BOOLEAN : UpsertChunk(error)
    \/ EndUpsert
    \/ SkipActivity
    \/ \E row \in ActivitySamples, failing \in SUBSET AllKeys : ActivityRow(row, failing)
    \/ \E failing \in SUBSET AllKeys : EndActivity(failing)
    \/ MainImportDone
    \/ (mainPc = "enrich-nbb" /\ RunEnrichNbb)
    \/ \E error \in BOOLEAN : MainEnrichFromDb(error)

SpecMain == InitMain /\ [][NextMain]_vars

\* a mandatory configuration value is missing
ConfigMissing ==
    \/ env.SUPABASE_URL \in {UNDEF, ""}
    \/ env.SUPABASE_SERVICE_KEY \in {UNDEF, ""}

\* C13: when SUPABASE_URL or SUPABASE_SERVICE_KEY is missing, main never gets
\* past validateConfig: no row of an input file is read, no request is
\* enqueued, no call is made to the store, and an import-kbo or enrich-nbb
\* command (given without --help) has exited with code 1 and the
\* configuration error that names the first missing variable as soon as main
\* has taken its step.
C13_MissingConfigStopsCommand ==
    (ConfigMissing /\ mainPc # "idle") =>
        /\ mainPc \in {"start", "exited"}
        /\ pc = "idle" /\ input = <<>> /\ rowsLeft = 0 /\ dataMap = <<>>
        /\ requestQueue = <<>>
        /\ storeCalls = <<>> /\ store = <<>> /\ selected = NoQuery
        /\ companyRows = MainTable
        /\ (mainPc = "exited" /\ ~argv.help /\ argv.command \in {"import-kbo", "enrich-nbb"}) =>
              /\ exitCode = 1
              /\ stderr = <<<<"Configuration error",
                              IF env.SUPABASE_URL \in {UNDEF, ""}
                              THEN "Missing SUPABASE_URL environment variable"
                              ELSE "Missing SUPABASE_SERVICE_KEY environment variable">>>>

\* an import-kbo command with its four files, given with SUPABASE_URL set and
\* SUPABASE_SERVICE_KEY empty, has exited on the configuration error
C13_Witness ==
    /\ mainPc = "exited"
    /\ argv.command = "import-kbo" /\ argv.files /\ ~argv.help
    /\ env.SUPABASE_URL = "set" /\ env.SUPABASE_SERVICE_KEY = ""
    /\ exitCode = 1
    /\ stderr = <<<<"Configuration error", "Missing SUPABASE_SERVICE_KEY environment variable">>>>

\* ------------------------------------------------------------------------
\* The crawlers: runNbbEnrichment and runKboEnrichment
\* ------------------------------------------------------------------------

\* how many vatNumbers an enrichment is run with
MaxEnqueued == 2

\* config.nbb.maxConcurrency, 1 unless NBB_MAX_CONCURRENCY is set
MaxConcurrency == 2

Workers == 1..MaxConcurrency

\* the keys an enrichment is run with: K1 is in the table, KU is not
CrawlKeys == {K1, KU}

\* the table the crawl finds: K1 and K2, enriched before the cutoff
CrawlTable ==
    <<CompanyRow(K1, <<Now - 40 * DaySeconds>>, <<Now - 40 * DaySeconds>>),
      CompanyRow(K2, <<Now - 40 * DaySeconds>>, <<>>)>>

\* what the text of a page gives for none of the other patterns of
\* extractKboData
NoDetails ==
    [fiscalYearEnd |-> NULL, annualMeetingMonth |-> NULL, juridicalSituationDate |-> NULL,
     entityLinks |-> <<>>, qualifications |-> <<>>, naceHistory |-> <<>>,
     exceptionalFiscalPeriods |-> <<>>]

\* A fetched page: the text of its body; for the NBB extraction the filing
\* year found in the text and the parsed CSV download; for the KBO
\* extraction the functions and the capital found, what its other patterns
\* found, and whether reading the page throws
Page(text, year, csv, functions, capital, broken) ==
    [text |-> text, year |-> year, csv |-> csv, functions |-> functions,
     capital |-> capital, broken |-> broken, details |-> NoDetails]

FullCsv ==
    <<[key |-> "70", val |-> 1500000], [key |-> "9904", val |-> 125000],
      [key |-> "10/15", val |-> 50000], [key |-> "9087", val |-> 12]>>

\* an alias of the turnover code, and a profit of zero
ZeroProfitCsv == <<[key |-> "70/74", val |-> 1000], [key |-> "9905", val |-> 0]>>

PlainText == <<"Y", "e", "a", "r", "-", "e", "n", "d", " ", "d", "a", "t", "e">>

\* pages of the NBB portal whose text holds a no-data phrase, as written in
\* the list and in capitals inside other text; the pages carry a filing year
\* and a CSV download all the same
NbbNoDataPages ==
    {Page(t, <<2023>>, FullCsv, <<>>, <<>>, FALSE) :
        t \in {noDataIndicators[k] : k \in DOMAIN noDataIndicators}
              \cup {<<"X", " ">> \o toUpperCase(noDataIndicators[k]) \o <<".">> :
                        k \in DOMAIN noDataIndicators}}

\* pages of the NBB portal without such a phrase
NbbDataPages ==
    {Page(PlainText, year, csv, <<>>, <<>>, FALSE) :
        year \in {<<>>, <<2023>>}, csv \in {<<>>, FullCsv}}

\* pages of the KBO portal
KboPages ==
    {Page(t, <<>>, <<>>, fc[1], fc[2], b) :
        t \in {PlainText, <<"g", "e", "e", "n", " ", "r", "e", "s", "u", "l", "t", "a", "t", "e", "n">>, <<"G", "e", "e", "n", " ", "r", "e", "s", "u", "l", "t", "a", "t", "e", "n">>},
        fc \in {<<<<>>, <<>>>>,
                <<(<<[firstName |-> "M", lastName |-> "B", role |-> "Bestuurder"]>>), <<18600>>>>},
        b \in BOOLEAN}

PageSamples(src) == IF src = "nbb" THEN NbbNoDataPages \cup NbbDataPages ELSE KboPages

\* what Dataset.pushData is given
DatasetRecord(vatNumber, status, data, retryCount, pageText) ==
    [vatNumber |-> vatNumber, status |-> status, data |-> data,
     retryCount |-> retryCount, pageText |-> pageText]

RECURSIVE EnqueueAllFor(_, _, _)
EnqueueAllFor(src, queue, keys) ==
    IF keys = <<>> THEN queue
    ELSE EnqueueAllFor(src,
            IF src = "nbb" THEN enqueueCompany(queue, Head(keys))
            ELSE enqueueCompanyKbo(queue, Head(keys)),
            Tail(keys))

\* the keys of length 1 to MaxEnqueued an enrichment is run with
RunKeySamples ==
    UNION {[1..n -> CrawlKeys] : n \in 1..MaxEnqueued}

InitCrawl ==
    /\ ImportIdle /\ EnrichIdle /\ VatIdle /\ NamesIdle /\ FlushIdle
    /\ env = [SUPABASE_URL |-> "set", SUPABASE_SERVICE_KEY |-> "set"]
    /\ argv = NoArgv
    /\ mainPc = "start"
    /\ stderr = <<>>
    /\ companyRows = CrawlTable
    /\ clock = Now
    /\ selected = NoQuery
    /\ CrawlerIdle

\* runNbbEnrichment(vatNumbers) or runKboEnrichment(vatNumbers) up to
\* crawler.run(): the crawler and its queue are created and every key is
\* enqueued
RunEnrichment(src, keys) ==
    /\ mainPc = "start"
    /\ mainPc' = "crawling"
    /\ source' = src
    /\ runKeys' = keys
    /\ requestQueue' = EnqueueAllFor(src, <<>>, keys)
    /\ attempts' = [i \in DOMAIN requestQueue' |->
                        [key |-> requestQueue'[i].uniqueKey, val |-> 0]]
    /\ inProgress' = [w \in Workers |-> <<>>]
    /\ UNCHANGED <<handled, dataset, companyRows, clock, selected>>
    /\ UNCHANGED <<env, argv, stderr, cli, exitCode>>
    /\ UNCHANGED <<importVars, vatVars, flushVars, namesVars>>

\* the requests a worker may be given: not handled, held by no worker
Pending ==
    {i \in DOMAIN requestQueue :
        /\ requestQueue[i].uniqueKey \notin handled
        /\ \A w \in DOMAIN inProgress :
              inProgress[w] = <<>> \/ inProgress[w][1].uniqueKey # requestQueue[i].uniqueKey}

IndexOfRequest(uniqueKey) ==
    CHOOSE i \in DOMAIN requestQueue : requestQueue[i].uniqueKey = uniqueKey

\* a free worker takes a request from the queue; the delay of the
\* pre-navigation hook and the navigation follow
Fetch(w) ==
    /\ mainPc = "crawling"
    /\ inProgress[w] = <<>>
    /\ \E i \in Pending :
          /\ inProgress' = [inProgress EXCEPT ![w] =
                <<[uniqueKey |-> requestQueue[i].uniqueKey, stage |-> "fetching",
                   data |-> <<>>]>>]
          /\ attempts' = MapSet(attempts, requestQueue[i].uniqueKey,
                                MapGet(attempts, requestQueue[i].uniqueKey) + 1)
    /\ UNCHANGED <<source, handled, dataset, runKeys, companyRows, clock, selected>>
    /\ UNCHANGED <<importVars, enrichVars, vatVars, flushVars, namesVars, mainVars>>

\* The navigation fails, or the handler throws before it has pushed
\* anything (waiting for the page, reading its text, taking the screenshot):
\* the crawler puts the request back with retryCount + 1, or, the retries
\* used up, marks it handled and calls failedRequestHandler
AttemptFails(w) ==
    /\ mainPc = "crawling"
    /\ inProgress[w] # <<>>
    /\ inProgress[w][1].stage = "fetching"
    /\ LET i == IndexOfRequest(inProgress[w][1].uniqueKey)
           request == requestQueue[i]
       IN  IF CanBeRetried(request)
           THEN /\ requestQueue' = [requestQueue EXCEPT ![i].retryCount = @ + 1]
                /\ UNCHANGED <<handled, dataset>>
           ELSE /\ handled' = handled \cup {request.uniqueKey}
                /\ dataset' = Append(dataset,
                      DatasetRecord(request.userData.vatNumber, "failed", <<>>,
                                    <<request.retryCount>>, <<>>))
                /\ UNCHANGED requestQueue
    /\ inProgress' = [inProgress EXCEPT ![w] = <<>>]
    /\ UNCHANGED <<source, attempts, runKeys, companyRows, clock, selected>>
    /\ UNCHANGED <<cli, exitCode>>
    /\ UNCHANGED <<importVars, vatVars, flushVars, namesVars, mainVars>>

\* requestHandler of the crawler that runs, on the page fetched, up to its
\* return or to its call of the writer
HandlePage(w, page) ==
    /\ mainPc = "crawling"
    /\ inProgress[w] # <<>>
    /\ inProgress[w][1].stage = "fetching"
    /\ page \in PageSamples(source)
    /\ LET uniqueKey == inProgress[w][1].uniqueKey
           vatNumber == requestQueue[IndexOfRequest(uniqueKey)].userData.vatNumber
           data == IF source = "nbb" THEN extractFinancialData(page, vatNumber)
                   ELSE extractKboData(page, vatNumber)
       IN  IF source = "nbb" /\ HasNoDataIndicator(page.text)
           THEN /\ dataset' = Append(dataset,
                      DatasetRecord(vatNumber, "no_data", <<>>, <<>>, <<>>))
                /\ handled' = handled \cup {uniqueKey}
                /\ inProgress' = [inProgress EXCEPT ![w] = <<>>]
           ELSE IF data = <<>>
           THEN /\ dataset' = Append(dataset,
                      DatasetRecord(vatNumber, "extraction_failed", <<>>, <<>>,
                                    IF source = "nbb" THEN <<slice(page.text, 0, 1000)>>
                                    ELSE <<>>))
                /\ handled' = handled \cup {uniqueKey}
                /\ inProgress' = [inProgress EXCEPT ![w] = <<>>]
           ELSE /\ dataset' = Append(dataset,
                      DatasetRecord(vatNumber, "success", data, <<>>, <<>>))
                /\ inProgress' = [inProgress EXCEPT ![w] =
                      <<[uniqueKey |-> uniqueKey, stage |-> "saving", data |-> data]>>]
                /\ UNCHANGED handled
    /\ UNCHANGED <<source, attempts, runKeys, companyRows, clock, selected>>
    /\ UNCHANGED <<importVars, enrichVars, vatVars, flushVars, namesVars, mainVars>>

\* try { await enrichWithNbb(financialData) } catch { log }, or the same with
\* enrichWithKbo: an error of the store is logged and the handler returns
SaveToDatabase(w, error) ==
    /\ mainPc = "crawling"
    /\ inProgress[w] # <<>>
    /\ inProgress[w][1].stage = "saving"
    /\ companyRows' =
          IF error THEN companyRows
          ELSE IF source = "nbb"
               THEN enrichWithNbb(companyRows, inProgress[w][1].data[1], clock)
               ELSE enrichWithKbo(companyRows, inProgress[w][1].data[1], clock)
    /\ handled' = handled \cup {inProgress[w][1].uniqueKey}
    /\ inProgress' = [inProgress EXCEPT ![w] = <<>>]
    /\ UNCHANGED <<source, dataset, attempts, runKeys, clock, selected>>
    /\ UNCHANGED <<importVars, enrichVars, vatVars, flushVars, namesVars, mainVars>>

\* crawler.run() resolves when every request is handled
CrawlerFinished ==
    /\ mainPc = "crawling"
    /\ \A i \in DOMAIN requestQueue : requestQueue[i].uniqueKey \in handled
    /\ mainPc' = "returned"
    /\ UNCHANGED <<env, argv, stderr>>
    /\ UNCHANGED <<importVars, enrichVars, vatVars, flushVars, namesVars, crawlVars>>

NextCrawl ==
    \/ \E src \in {"nbb", "kbo"}, keys \in RunKeySamples : RunEnrichment(src, keys)
    \/ \E w \in Workers : Fetch(w)
    \/ \E w \in Workers : AttemptFails(w)
    \/ \E w \in Workers, page \in NbbNoDataPages \cup NbbDataPages \cup KboPages :
          HandlePage(w, page)
    \/ \E w \in Workers, error \in BOOLEAN : SaveToDatabase(w, error)
    \/ CrawlerFinished

SpecCrawl == InitCrawl /\ [][NextCrawl]_vars

\* ------------------------------------------------------------------------
\* The outcomes of the enrichment tasks
\* ------------------------------------------------------------------------

\* the worker w holds the request of uniqueKey k
Holds(w, k) == inProgress[w] # <<>> /\ inProgress[w][1].uniqueKey = k

IsHeld(k) == \E w \in DOMAIN inProgress : Holds(w, k)

\* the uniqueKey of the task a dataset record is about
TaskOf(record) == <<source, record.vatNumber>>

\* the records pushed for the key of a task
RecordsOf(k) == {i \in DOMAIN dataset : TaskOf(dataset[i]) = k}

AttemptsOf(k) == MapGet(attempts, k)

\* no task that is handled is fetched again, and it stays handled
HandledIsFinal ==
    \A k \in handled :
        /\ k \in handled'
        /\ AttemptsOf(k)' = AttemptsOf(k)
        /\ RecordsOf(k)' = RecordsOf(k)
        /\ ~IsHeld(k)'

\* C15: a task of the NBB crawler whose page text holds one of the six
\* no-data phrases, in any case, ends in no_data in the step that handles the
\* page: the record is pushed, the writer is not called and the table is
\* left as it was, the task is handled and is not fetched again; a key with a
\* no_data record has no other record and its row is the row the crawl found.
C15_NoDataIsTerminal ==
    /\ [](source = "nbb" =>
            \A i \in DOMAIN dataset :
                dataset[i].status = "no_data" =>
                    /\ TaskOf(dataset[i]) \in handled
                    /\ ~IsHeld(TaskOf(dataset[i]))
                    /\ RecordsOf(TaskOf(dataset[i])) = {i}
                    /\ \A r \in DOMAIN companyRows :
                          companyRows[r].vat_number = dataset[i].vatNumber =>
                              companyRows[r] = CrawlTable[r])
    /\ [][\A w \in Workers, page \in NbbNoDataPages :
            (source = "nbb" /\ HandlePage(w, page)) =>
                /\ dataset' = Append(dataset,
                      DatasetRecord(inProgress[w][1].uniqueKey[2], "no_data",
                                    <<>>, <<>>, <<>>))
                /\ companyRows' = companyRows
                /\ inProgress'[w] = <<>>
                /\ inProgress[w][1].uniqueKey \in handled'
                /\ requestQueue' = requestQueue]_vars
    /\ [][\A i \in DOMAIN dataset :
            dataset[i].status = "no_data" =>
                \A k \in {TaskOf(dataset[i])} : AttemptsOf(k)' = AttemptsOf(k)]_vars

\* the task of K1 failed once, was fetched again and ended in no_data
C15_Witness ==
    /\ source = "nbb"
    /\ \E i \in DOMAIN dataset :
          dataset[i].status = "no_data" /\ dataset[i].vatNumber = K1
    /\ AttemptsOf(<<"nbb", K1>>) = 2
    /\ <<"nbb", K1>> \in handled

\* the failed records of a task
FailedRecordsOf(k) == {i \in RecordsOf(k) : dataset[i].status = "failed"}

\* C16: a failed attempt puts the request back with its retry count raised
\* by one while the count is below 3; the count never exceeds 3 and a task is
\* fetched at most 4 times, each fetch but the running one having failed; the
\* failure of the fourth attempt ends the task in failed, once, recorded with
\* retry count 3, and a handled task is never fetched again.
C16_RetriesThenFailed ==
    /\ [](mainPc \in {"crawling", "returned"} =>
            \A i \in DOMAIN requestQueue :
                LET request == requestQueue[i]
                    k == request.uniqueKey
                IN  /\ request.retryCount \in 0..3
                    /\ AttemptsOf(k) <= 3 + 1
                    /\ (k \notin handled /\ ~IsHeld(k)) => AttemptsOf(k) = request.retryCount
                    /\ (k \in handled \/ IsHeld(k)) => AttemptsOf(k) = request.retryCount + 1
                    /\ Cardinality(FailedRecordsOf(k)) <= 1
                    /\ FailedRecordsOf(k) # {} =>
                          /\ k \in handled /\ ~IsHeld(k)
                          /\ AttemptsOf(k) = 4
                          /\ RecordsOf(k) = FailedRecordsOf(k)
                          /\ \A j \in FailedRecordsOf(k) : dataset[j].retryCount = <<3>>)
    /\ [][\A w \in Workers :
            AttemptFails(w) =>
                \A k \in {inProgress[w][1].uniqueKey}, i \in DOMAIN requestQueue :
                    requestQueue[i].uniqueKey = k =>
                        IF requestQueue[i].retryCount < 3
                        THEN /\ requestQueue'[i].retryCount = requestQueue[i].retryCount + 1
                             /\ k \notin handled' /\ ~IsHeld(k)'
                             /\ dataset' = dataset
                        ELSE /\ k \in handled' /\ ~IsHeld(k)'
                             /\ dataset' = Append(dataset,
                                   DatasetRecord(k[2], "failed", <<>>, <<3>>, <<>>))]_vars
    /\ [][HandledIsFinal]_vars

\* the task of K1 failed four times and is recorded as failed with retry
\* count 3
C16_Witness ==
    /\ \E i \in DOMAIN dataset :
          /\ dataset[i].status = "failed"
          /\ dataset[i].vatNumber = K1
          /\ dataset[i].retryCount = <<3>>
    /\ AttemptsOf(<<source, K1>>) = 4
    /\ <<source, K1>> \in handled

\* C17: a task recorded as success whose handler has returned has a
\* non-empty extraction result, and the row of its key holds the extracted
\* data and the timestamp of the source set by this run.
C17_SuccessMeansWritten ==
    \A i \in DOMAIN dataset :
        (dataset[i].status = "success" /\ TaskOf(dataset[i]) \in handled) =>
            /\ dataset[i].data # <<>>
            /\ \E r \in DOMAIN companyRows :
                  /\ companyRows[r].vat_number = dataset[i].vatNumber
                  /\ source = "nbb" =>
                        /\ companyRows[r].last_enriched_at = <<clock>>
                        /\ companyRows[r].financial_summary # <<>>
                        /\ companyRows[r].financial_summary[1].year = dataset[i].data[1].year
                  /\ source = "kbo" =>
                        /\ companyRows[r].last_kbo_enriched_at = <<clock>>
                        /\ companyRows[r].functions = dataset[i].data[1].functions

\* the keys the enrichment was run with
RunKeySet == {runKeys[i] : i \in DOMAIN runKeys}

TurnoverSamples == {<<>>, <<0>>, <<1000>>, <<1500000>>}

ProfitLossSamples == {<<>>, <<0>>, <<125000>>, <<-250>>}

\* the CSV download that holds the given values under the given codes
CsvOf(turnoverCode, turnover, profitLoss, equity) ==
    (IF turnover = <<>> THEN <<>> ELSE <<[key |-> turnoverCode, val |-> turnover[1]]>>)
    \o (IF profitLoss = <<>> THEN <<>> ELSE <<[key |-> "9904", val |-> profitLoss[1]]>>)
    \o (IF equity = <<>> THEN <<>> ELSE <<[key |-> "10/15", val |-> equity[1]]>>)

CsvSamples ==
    {CsvOf(code, t, p, e) :
        code \in {"70", "9903"}, t \in TurnoverSamples, p \in ProfitLossSamples,
        e \in {<<>>, <<50000>>}}
    \cup {ZeroProfitCsv}

\* The handler of the NBB crawler has extracted the financial data of a page
\* with a filing year and one of the CSV downloads, has pushed its success
\* record and is about to call enrichWithNbb
InitNbbWrite ==
    /\ ImportIdle /\ VatIdle /\ NamesIdle /\ FlushIdle
    /\ cli = [vat |-> NULL] /\ exitCode = -1
    /\ env = [SUPABASE_URL |-> "set", SUPABASE_SERVICE_KEY |-> "set"]
    /\ argv = NoArgv
    /\ mainPc = "crawling"
    /\ stderr = <<>>
    /\ companyRows = CrawlTable
    /\ clock = Now
    /\ selected = NoQuery
    /\ source = "nbb"
    /\ handled = {}
    /\ \E vatNumber \in {K1, K2}, csv \in CsvSamples :
          LET data == extractFinancialData(
                          Page(PlainText, <<2023>>, csv, <<>>, <<>>, FALSE), vatNumber)
          IN  /\ runKeys = <<vatNumber>>
              /\ requestQueue = enqueueCompany(<<>>, vatNumber)
              /\ attempts = <<[key |-> <<"nbb", vatNumber>>, val |-> 1]>>
              /\ dataset = <<DatasetRecord(vatNumber, "success", data, <<>>, <<>>)>>
              /\ inProgress = [w \in Workers |->
                    IF w = 1 THEN <<[uniqueKey |-> <<"nbb", vatNumber>>,
                                     stage |-> "saving", data |-> data]>>
                    ELSE <<>>]

NextNbbWrite ==
    \/ \E w \in Workers, error \in BOOLEAN : SaveToDatabase(w, error)
    \/ CrawlerFinished

SpecNbbWrite == InitNbbWrite /\ [][NextNbbWrite]_vars

\* the financial snapshots the table holds
StoredSummaries ==
    {companyRows[r].financial_summary[1] :
        r \in {x \in DOMAIN companyRows : companyRows[x].financial_summary # <<>>}}

\* C19: a stored financial snapshot whose turnover and profit/loss are both
\* present (the turnover not zero) holds net_margin = profit_loss / turnover
\* * 100, which is 8.33 to two decimals for 125,000 on 1,500,000; a snapshot
\* in which either is absent holds no net_margin; no stored net_margin is a
\* division by zero.
C19_NetMarginWhenBothPresent ==
    \A fs \in StoredSummaries :
        /\ (fs.turnover # <<>> /\ fs.profit_loss # <<>> /\ fs.turnover[1] # 0) =>
              /\ fs.net_margin # <<>>
              /\ fs.net_margin[1].num = fs.profit_loss[1] * 100
              /\ fs.net_margin[1].den = fs.turnover[1]
        /\ (fs.turnover = <<1500000>> /\ fs.profit_loss = <<125000>>) =>
              /\ fs.net_margin # <<>>
              /\ (fs.net_margin[1].num * 100) \div fs.net_margin[1].den = 833
        /\ (fs.turnover = <<>> \/ fs.profit_loss = <<>>) => fs.net_margin = <<>>
        /\ fs.net_margin # <<>> => fs.net_margin[1].den # 0

\* the same with a profit/loss of zero counted as absent, as the test of
\* enrichWithNbb counts it
NetMarginWhenBothTruthy ==
    \A fs \in StoredSummaries :
        /\ (TruthyNumber(fs.turnover) /\ TruthyNumber(fs.profit_loss)) =>
              /\ fs.net_margin # <<>>
              /\ fs.net_margin[1].num = fs.profit_loss[1] * 100
              /\ fs.net_margin[1].den = fs.turnover[1]
        /\ ~(TruthyNumber(fs.turnover) /\ TruthyNumber(fs.profit_loss)) =>
              fs.net_margin = <<>>
        /\ fs.net_margin # <<>> => fs.net_margin[1].den # 0

\* ------------------------------------------------------------------------
\* The import on enterprise rows of every situation code
\* ------------------------------------------------------------------------

\* rows the files of such a run hold in total
MaxSituationRows == 3

\* the codes of the lookup table, and codes the table does not hold: the
\* empty one, one of three digits, one of two and one of four
SituationCodes ==
    {JURIDICAL_SITUATION_MAP[i][1] : i \in DOMAIN JURIDICAL_SITUATION_MAP}
    \cup {"", "999", "00", "0000"}

\* a legal-form code of the table, the empty one and one the table does not
\* hold
LegalFormCodes == {"014", "", "999"}

EnterpriseRow_(enterpriseNumber, status, juridicalSituation, juridicalForm) ==
    [EnterpriseNumber |-> enterpriseNumber, Status |-> status,
     JuridicalSituation |-> juridicalSituation, TypeOfEnterprise |-> "2",
     JuridicalForm |-> juridicalForm, StartDate |-> <<>>]

\* the first row of enterprise.csv: K1 with any of the codes
FirstSituationRows ==
    {EnterpriseRow_(Dotted(K1), status, situation, form) :
        status \in {"AC", "ST"}, situation \in SituationCodes, form \in LegalFormCodes}

\* the rows that follow: K2, and K1 once more
LaterSituationRows ==
    {EnterpriseRow_(Dotted(K2), "AC", "", "999"),
     EnterpriseRow_(Dotted(K2), "AC", "091", "014"),
     EnterpriseRow_(Dotted(K1), "AC", "777", "")}

SituationRows == FirstSituationRows \cup LaterSituationRows

\* importKboData(options) is called on an empty table
InitSituation ==
    /\ pc = "pass1"
    /\ options \in ImportOptions
    /\ input = <<>>
    /\ rowsLeft = MaxSituationRows
    /\ dataMap = <<>>
    /\ vatNumbers = {}
    /\ contactMap = <<>>
    /\ establishmentCounts = <<>>
    /\ validCompanies = <<>>
    /\ skipped = 0
    /\ imported = 0
    /\ chunkStart = 0
    /\ currentBatch = <<>>
    /\ updated = 0
    /\ mainCodes = 0
    /\ store = <<>>
    /\ storeCalls = <<>>
    /\ result = NoResult
    /\ EnrichIdle /\ VatIdle /\ NamesIdle /\ FlushIdle
    /\ MainIdle /\ CrawlIdle

\* the import with no address, contact or branch rows
NextSituation ==
    \/ \E row \in FirstSituationRows : (input = <<>> /\ EnterpriseRow(row))
    \/ \E row \in LaterSituationRows : (input # <<>> /\ EnterpriseRow(row))
    \/ EndEnterprises
    \/ \E row \in DenominationSamples : DenominationRow(row)
    \/ EndDenominations
    \/ EndAddresses(FALSE)
    \/ EndContacts(FALSE)
    \/ \E batchSize \in 1..MaxBatchSize, dryRun \in BOOLEAN : FilterCompanies(batchSize, dryRun)
    \/ \E error \in BOOLEAN : UpsertChunk(error)
    \/ EndUpsert
    \/ SkipActivity
    \/ EndActivity({})

SpecSituation == InitSituation /\ [][NextSituation]_vars

\* the enum value a situation code stands for
IsSituationOf(value, code) ==
    /\ \A i \in DOMAIN JURIDICAL_SITUATION_MAP :
          JURIDICAL_SITUATION_MAP[i][1] = code => value = JURIDICAL_SITUATION_MAP[i][2]
    /\ (\A i \in DOMAIN JURIDICAL_SITUATION_MAP : JURIDICAL_SITUATION_MAP[i][1] # code) =>
          value = "other"

\* C20: every record of dataMap, every record of validCompanies and every
\* record of an upsert sent to the store has a juridical situation of the
\* enum (never null or undefined); pass 1 gives a row the value of its code
\* in the lookup table and other for any other code, the empty one included;
\* a row of a legal entity (an active one when only those are kept) is
\* stored whatever its situation and legal-form codes are, and the pass goes
\* on.
C20_SituationFromClosedEnum ==
    /\ [](/\ \A i \in DOMAIN dataMap :
                dataMap[i].val.juridicalSituation \in JuridicalSituationEnum
          /\ \A i \in DOMAIN validCompanies :
                validCompanies[i].juridical_situation \in JuridicalSituationEnum
          /\ \A c \in DOMAIN storeCalls :
                storeCalls[c].op = "upsert" =>
                    \A i \in DOMAIN storeCalls[c].companies :
                        storeCalls[c].companies[i].juridical_situation
                            \in JuridicalSituationEnum
          /\ \A k \in DOMAIN store :
                store[k].juridical_situation \in JuridicalSituationEnum)
    /\ [][\A row \in SituationRows :
            EnterpriseRow(row) =>
                /\ pc' = "pass1"
                /\ (row.TypeOfEnterprise = "2"
                    /\ (options.activeOnly => row.Status = "AC")) =>
                      /\ MapHas(dataMap', normalizeVat(row.EnterpriseNumber))
                      /\ IsSituationOf(
                            MapGet(dataMap', normalizeVat(row.EnterpriseNumber)).juridicalSituation,
                            row.JuridicalSituation)
                      /\ MapKeys(dataMap') = MapKeys(dataMap) \cup {normalizeVat(row.EnterpriseNumber)}]_vars

\* the store was sent K2, whose only row with an unmapped situation code has
\* the empty one, with the situation other and no legal form, read from a
\* code the table does not hold
C20_Witness ==
    \E c \in DOMAIN storeCalls :
        /\ storeCalls[c].op = "upsert"
        /\ \E i \in DOMAIN storeCalls[c].companies :
              /\ storeCalls[c].companies[i].vat_number = K2
              /\ storeCalls[c].companies[i].juridical_situation = "other"
              /\ storeCalls[c].companies[i].legal_form = UNDEF
              /\ storeCalls[c].companies[i].legal_form_code = "999"

\* ------------------------------------------------------------------------
\* The outcomes of the enrichment tasks: the extraction
\* ------------------------------------------------------------------------

\* C21: every financial snapshot of the table carries a year, a positive
\* number; extractFinancialData returns nothing for a page whose text gives
\* no filing year, whatever its CSV download holds, and the step of the NBB
\* handler on such a page pushes extraction_failed, leaves the table as it
\* is and does not go on to the writer.
C21_SnapshotCarriesYear ==
    /\ [](/\ \A r \in DOMAIN companyRows :
                companyRows[r].financial_summary # <<>> =>
                    companyRows[r].financial_summary[1].year \in 1..9999
          /\ source = "nbb" =>
                \A i \in DOMAIN dataset :
                    dataset[i].status = "success" =>
                        dataset[i].data # <<>> /\ dataset[i].data[1].year \in 1..9999)
    /\ [][\A w \in Workers, page \in NbbDataPages :
            (source = "nbb" /\ page.year = <<>> /\ HandlePage(w, page)) =>
                /\ dataset' = Append(dataset,
                      DatasetRecord(inProgress[w][1].uniqueKey[2], "extraction_failed",
                                    <<>>, <<>>, <<slice(page.text, 0, 1000)>>))
                /\ companyRows' = companyRows
                /\ inProgress'[w] = <<>>]_vars

\* the NBB task of K1 ended in extraction_failed, which the NBB handler
\* reaches only on a page without a filing year, and the row of K1 is as the
\* crawl found it
C21_Witness ==
    /\ source = "nbb"
    /\ \E i \in DOMAIN dataset :
          dataset[i].status = "extraction_failed" /\ dataset[i].vatNumber = K1
    /\ <<"nbb", K1>> \in handled
    /\ companyRows = CrawlTable

\* the pages of the KBO portal that can be read and whose text holds a
\* no-result phrase as extractKboData looks for it
KboNoResultPages ==
    {page \in KboPages :
        ~page.broken /\ \E p \in KboNoResultPhrases : includes(page.text, p)}

\* C22: the step of the KBO handler on a page whose text holds a no-result
\* phrase pushes a no_data record, not an extraction_failed one, marks the
\* task handled and leaves the table as it is.
C22_KboNoResultsIsNoData ==
    [][\A w \in Workers, page \in KboNoResultPages :
            (source = "kbo" /\ HandlePage(w, page)) =>
                /\ dataset' = Append(dataset,
                      DatasetRecord(inProgress[w][1].uniqueKey[2], "no_data",
                                    <<>>, <<>>, <<>>))
                /\ inProgress[w][1].uniqueKey \in handled'
                /\ companyRows' = companyRows]_vars

\* the record i of the dataset is an extraction_failed one that carries a
\* snapshot of the page text; its task is handled, held by no worker and has
\* no other record, and the row of its key is as the crawl found it
RecordedExtractionFailure(i) ==
    /\ dataset[i].pageText # <<>>
    /\ TaskOf(dataset[i]) \in handled
    /\ ~IsHeld(TaskOf(dataset[i]))
    /\ RecordsOf(TaskOf(dataset[i])) = {i}
    /\ \A r \in DOMAIN companyRows :
          companyRows[r].vat_number = dataset[i].vatNumber =>
              companyRows[r] = CrawlTable[r]

\* C23: for both sources, a task that ended in extraction_failed is recorded
\* with a snapshot of the page text, is handled and not fetched again, and
\* the row of its key is unchanged: the writer was not called and no
\* timestamp was stamped.
C23_ExtractionFailedIsRecorded ==
    \A i \in DOMAIN dataset :
        dataset[i].status = "extraction_failed" => RecordedExtractionFailure(i)

\* the same for the NBB crawler alone
NbbExtractionFailedIsRecorded ==
    source = "nbb" =>
        \A i \in DOMAIN dataset :
            dataset[i].status = "extraction_failed" => RecordedExtractionFailure(i)

\* ------------------------------------------------------------------------
\* The order of the passes of importKboData
\* ------------------------------------------------------------------------

\* the place of a value of pc in the body of importKboData
PassRank(p) ==
    CASE p = "idle" -> 0
      [] p = "pass1" -> 1
      [] p = "pass2" -> 2
      [] p = "pass3" -> 3
      [] p \in {"pass4", "pass4skipped"} -> 4
      [] p = "pass5" -> 5
      [] p = "pass6" -> 6
      [] p = "upsert" -> 7
      [] p = "pass7" -> 8
      [] p = "done" -> 9

\* C24: pc only moves forward through the passes; while pass 1 reads, no
\* record carries a name or an address and the contact and branch maps are
\* empty; the store is sent nothing before pass 6; the upserts sent so far
\* are, in order, the chunks of validCompanies up to chunkStart, one more
\* chunk per step; pass 6 is left only when every chunk was sent (or on a dry
\* run); every activity update follows every upsert and is sent in pass 7.
C24_PassesRunInSequence ==
    /\ [](/\ pc = "pass1" =>
                /\ \A i \in DOMAIN dataMap :
                      dataMap[i].val.names = EmptyNames /\ dataMap[i].val.address = <<>>
                /\ contactMap = <<>> /\ establishmentCounts = <<>>
          /\ pc \in {"pass2", "pass3"} => contactMap = <<>> /\ establishmentCounts = <<>>
          /\ pc \in {"pass4", "pass4skipped"} => establishmentCounts = <<>>
          /\ PassRank(pc) < 7 => storeCalls = <<>> /\ DOMAIN store = {}
          /\ pc = "upsert" =>
                /\ \A c \in DOMAIN storeCalls : storeCalls[c].op = "upsert"
                /\ SubmittedCompanies(storeCalls) = slice(validCompanies, 0, chunkStart)
                /\ \A c \in DOMAIN storeCalls :
                      storeCalls[c].companies =
                          ChunkAt(validCompanies, (c - 1) * options.batchSize,
                                  options.batchSize)
          /\ \A c, d \in DOMAIN storeCalls :
                (c < d /\ storeCalls[d].op = "upsert") => storeCalls[c].op = "upsert"
          /\ (\E c \in DOMAIN storeCalls : storeCalls[c].op = "update") =>
                pc \in {"pass7", "done"})
    /\ [][/\ PassRank(pc') \in {PassRank(pc), PassRank(pc) + 1, PassRank(pc) + 2}
          /\ PassRank(pc') = PassRank(pc) + 2 => pc \in {"pass3", "pass4", "pass4skipped"}
          /\ Len(storeCalls') \in {Len(storeCalls), Len(storeCalls) + 1}
          /\ SubSeq(storeCalls', 1, Len(storeCalls)) = storeCalls
          /\ (pc = "upsert" /\ pc' = "pass7" /\ ~options.dryRun) =>
                SubmittedCompanies(storeCalls) = validCompanies]_vars

\* an import has returned after it sent the upsert of a named company and
\* then the activity update of its key
C24_Witness ==
    /\ pc = "done"
    /\ Len(storeCalls) = 2
    /\ storeCalls[1].op = "upsert" /\ Len(storeCalls[1].companies) = 1
    /\ storeCalls[2].op = "update"
    /\ MapKeys(storeCalls[2].entries) = {storeCalls[1].companies[1].vat_number}

\* ------------------------------------------------------------------------
\* batchUpdateNaceCodes, update by update
\* ------------------------------------------------------------------------

\* the chunks a flushed batch is cut into, at most
MaxFlushChunks == 2

\* the updates of one flush the store answers with an error, at most
MaxFlushErrors == 2

\* the sizes of a flushed batch: one short of, exactly and one over a
\* multiple of the chunk size
FlushSizes ==
    {n \in 1..(MaxFlushChunks * UpdateChunkSize + 1) :
        n % UpdateChunkSize \in {0, 1, UpdateChunkSize - 1}}

InitFlush ==
    /\ ImportIdle /\ EnrichIdle /\ VatIdle /\ NamesIdle /\ FlushIdle
    /\ MainIdle /\ CrawlIdle

\* await batchUpdateNaceCodes(currentBatch), the batch holding n entries:
\* entries = Array.from(naceCodeMap.entries()); i = 0
FlushStart(n) ==
    /\ flushPc = "idle"
    /\ flushPc' = "loop"
    /\ flushEntries' = n
    /\ flushIndex' = 0
    /\ flushUpdated' = 0
    /\ chunkUpdated' = 0
    /\ flushErrors' = 0
    /\ UNCHANGED inFlight
    /\ UNCHANGED <<importVars, enrichVars, vatVars, namesVars, mainVars, crawlVars>>

\* the chunk loop going on although updates of the chunk are unanswered
ChunkAwaited_someAnswered ==
    /\ flushPc = "awaiting"
    /\ inFlight < ChunkLength(flushEntries, flushIndex)
    /\ flushPc' = "loop"
    /\ flushUpdated' = flushUpdated + chunkUpdated
    /\ flushIndex' = flushIndex + UpdateChunkSize
    /\ UNCHANGED <<flushEntries, inFlight, chunkUpdated, flushErrors>>
    /\ UNCHANGED <<importVars, enrichVars, vatVars, namesVars, mainVars, crawlVars>>

\* batch.map(async ...) with i < entries.length: every update of the slice is
\* sent to the store before the first await gives the control back
IssueChunk ==
    /\ flushPc = "loop"
    /\ flushIndex < flushEntries
    /\ flushPc' = "awaiting"
    /\ inFlight' = inFlight + ChunkLength(flushEntries, flushIndex)
    /\ chunkUpdated' = 0
    /\ UNCHANGED <<flushEntries, flushIndex, flushUpdated, flushErrors>>
    /\ UNCHANGED <<importVars, enrichVars, vatVars, namesVars, mainVars, crawlVars>>

\* the store answers one update, with an error or without: the promise of
\* that entry resolves to { updated: 0 } or { updated: 1 }
UpdateAnswered(error) ==
    /\ flushPc \in {"awaiting", "loop"}
    /\ inFlight > 0
    /\ error => flushErrors < MaxFlushErrors
    /\ inFlight' = inFlight - 1
    /\ chunkUpdated' = IF error THEN chunkUpdated ELSE chunkUpdated + 1
    /\ flushErrors' = IF error THEN flushErrors + 1 ELSE flushErrors
    /\ UNCHANGED <<flushPc, flushEntries, flushIndex, flushUpdated>>
    /\ UNCHANGED <<importVars, enrichVars, vatVars, namesVars, mainVars, crawlVars>>

\* await Promise.all(promises) resolves when every promise of the chunk has;
\* updated += ...; i += batchSize
ChunkAwaited ==
    /\ flushPc = "awaiting"
    /\ inFlight = 0
    /\ flushPc' = "loop"
    /\ flushUpdated' = flushUpdated + chunkUpdated
    /\ flushIndex' = flushIndex + UpdateChunkSize
    /\ UNCHANGED <<flushEntries, inFlight, chunkUpdated, flushErrors>>
    /\ UNCHANGED <<importVars, enrichVars, vatVars, namesVars, mainVars, crawlVars>>

\* i >= entries.length: return { updated, mainCodes }
FlushReturn ==
    /\ flushPc = "loop"
    /\ flushIndex >= flushEntries
    /\ flushPc' = "returned"
    /\ UNCHANGED <<flushEntries, flushIndex, inFlight, chunkUpdated, flushUpdated,
                   flushErrors>>
    /\ UNCHANGED <<importVars, enrichVars, vatVars, namesVars, mainVars, crawlVars>>

\* streamActivityCodes goes on: currentBatch.clear() and the next row is read
\* from the parser, or the pass ends
NextActivityRowRead ==
    /\ flushPc = "returned"
    /\ flushPc' = "idle"
    /\ flushEntries' = 0
    /\ flushIndex' = 0
    /\ chunkUpdated' = 0
    /\ flushUpdated' = 0
    /\ flushErrors' = 0
    /\ UNCHANGED inFlight
    /\ UNCHANGED <<importVars, enrichVars, vatVars, namesVars, mainVars, crawlVars>>

NextFlush ==
    \/ \E n \in FlushSizes : FlushStart(n)
    \/ IssueChunk
    \/ \E error \in BOOLEAN : UpdateAnswered(error)
    \/ ChunkAwaited
    \/ FlushReturn
    \/ NextActivityRowRead

SpecFlush == InitFlush /\ [][NextFlush]_vars

\* C25: at most 100 updates are in flight; while a chunk is awaited the
\* updates in flight and the answers received make up the slice at i; a
\* chunk is issued, the call returns and the next row is read only when no
\* update is in flight; the call returns after every entry was issued, with
\* updated counting the answers without error.
C25_ChunksFullyAwaited ==
    /\ [](/\ inFlight \in 0..100
          /\ flushPc \in {"idle", "loop", "returned"} => inFlight = 0
          /\ flushPc = "awaiting" =>
                /\ flushIndex < flushEntries
                /\ inFlight <= ChunkLength(flushEntries, flushIndex)
                /\ ChunkLength(flushEntries, flushIndex) <= 100
          /\ flushPc = "returned" =>
                /\ flushIndex >= flushEntries
                /\ flushUpdated + flushErrors = flushEntries)
    /\ [][/\ IssueChunk => inFlight = 0 /\ inFlight' \in 1..100
          /\ ChunkAwaited => inFlight = 0
          /\ FlushReturn => inFlight = 0
          /\ NextActivityRowRead => inFlight = 0
          /\ flushIndex' # flushIndex => inFlight = 0 /\ inFlight' = 0]_vars

\* a batch of 201 entries: the first chunk was answered, one update with an
\* error, and the 100 updates of the second chunk are in flight
C25_Witness ==
    /\ flushPc = "awaiting"
    /\ flushEntries = 201
    /\ flushIndex = 100
    /\ flushUpdated = 99
    /\ inFlight = 100

\* ------------------------------------------------------------------------
\* The batch of streamActivityCodes and its flushes
\* ------------------------------------------------------------------------

\* the batch the loop body builds from rows
RECURSIVE BatchOfRows(_, _)
BatchOfRows(batch, rows) ==
    IF rows = <<>> THEN batch
    ELSE BatchOfRows(streamActivityRow(batch, Head(rows)), Tail(rows))

\* the calls of batchUpdateNaceCodes so far, in order
ActivityFlushes == SelectSeq(storeCalls, LAMBDA c : c.op = "update")

\* the j-th smallest of ends, 0 for j = 0
SegmentEnd(ends, j) ==
    IF j = 0 THEN 0
    ELSE CHOOSE e \in ends : Cardinality({x \in ends : x <= e}) = j

\* the rows read so far fall into consecutive segments, one per flush, each
\* flush carrying the batch of its segment and nothing else; the rows after
\* the last segment are those of the batch in memory
RowsInExactlyOneFlush ==
    \E ends \in SUBSET (1..Len(input)) :
        /\ Cardinality(ends) = Len(ActivityFlushes)
        /\ \A j \in 1..Len(ActivityFlushes) :
              ActivityFlushes[j].entries =
                 BatchOfRows(<<>>, SubSeq(input, SegmentEnd(ends, j - 1) + 1,
                                          SegmentEnd(ends, j)))
        /\ LET rest == SubSeq(input, SegmentEnd(ends, Cardinality(ends)) + 1, Len(input))
           IN  IF pc = "pass7" THEN currentBatch = BatchOfRows(<<>>, rest)
               ELSE \A i \in DOMAIN rest : ~AcceptsActivity(rest[i])

\* rows activity.csv holds, and the largest batchSize
MaxBatchRows == 3
MaxBatchKeys == 3

\* rows of three keys, one of a version that is not imported
BatchRows ==
    {ActivityRow_(Dotted(K1), "2008", "62010", "MAIN"),
     ActivityRow_(Dotted(K1), "2025", "47110", "SECO"),
     ActivityRow_(Dotted(K2), "2008", "62010", "MAIN"),
     ActivityRow_(Dotted(KU), "2008", "62010", "MAIN"),
     ActivityRow_(Dotted(K2), "2003", "01110", "MAIN")}

\* streamActivityCodes is entered after K1 and K2 were upserted
InitBatch ==
    /\ pc = "pass7"
    /\ options \in [batchSize : 1..MaxBatchKeys, dryRun : {FALSE}, activeOnly : {TRUE},
                    contactFile : {FALSE}, establishmentFile : {FALSE}]
    /\ input = <<>>
    /\ rowsLeft = MaxBatchRows
    /\ dataMap = <<>>
    /\ vatNumbers = {K1, K2}
    /\ contactMap = <<>>
    /\ establishmentCounts = <<>>
    /\ validCompanies = <<>>
    /\ skipped = 0
    /\ imported = 2
    /\ chunkStart = 0
    /\ currentBatch = <<>>
    /\ updated = 0
    /\ mainCodes = 0
    /\ store = UpsertRows(<<>>, ValidCompaniesOf(NamedIndex, <<>>, <<>>), 1)
    /\ storeCalls = <<[op |-> "upsert",
                       companies |-> ValidCompaniesOf(NamedIndex, <<>>, <<>>),
                       error |-> FALSE]>>
    /\ result = NoResult
    /\ EnrichIdle /\ VatIdle /\ NamesIdle /\ FlushIdle
    /\ MainIdle /\ CrawlIdle

NextBatch ==
    \/ \E row \in BatchRows, failing \in {{}, {K1}} : ActivityRow(row, failing)
    \/ \E failing \in {{}, {K1}} : EndActivity(failing)

SpecBatch == InitBatch /\ [][NextBatch]_vars

\* the step appends one call of batchUpdateNaceCodes on batch
FlushesBatch(batch) ==
    /\ Len(storeCalls') = Len(storeCalls) + 1
    /\ SubSeq(storeCalls', 1, Len(storeCalls)) = storeCalls
    /\ storeCalls'[Len(storeCalls')].op = "update"
    /\ storeCalls'[Len(storeCalls')].entries = batch

\* C26: while activity.csv is read the batch holds fewer than batchSize
\* distinct keys between two rows and at most batchSize inside a row; the
\* row that brings it to batchSize keys flushes it and leaves it empty, any
\* other row flushes nothing; at the end of input a non-empty batch is
\* flushed once and an empty one is not; every flush but a remainder holds
\* batchSize keys, and the rows read fall into consecutive segments, one per
\* flush, so that every accepted row is in exactly one flush.
C26_BatchBoundedAndFlushedOnce ==
    /\ [](pc \in {"pass7", "done"} /\ ~options.dryRun =>
            /\ pc = "pass7" => Len(currentBatch) < options.batchSize
            /\ \A i, j \in DOMAIN currentBatch :
                  currentBatch[i].key = currentBatch[j].key => i = j
            /\ \A j \in DOMAIN ActivityFlushes :
                  /\ Len(ActivityFlushes[j].entries) \in 1..options.batchSize
                  /\ (j < Len(ActivityFlushes) \/ pc = "pass7") =>
                        Len(ActivityFlushes[j].entries) = options.batchSize
            /\ RowsInExactlyOneFlush)
    /\ [][/\ (pc = "pass7" /\ input' # input) =>
                LET batch == streamActivityRow(currentBatch, input'[Len(input')]) IN
                /\ Len(batch) <= options.batchSize
                /\ IF Len(batch) = options.batchSize
                   THEN FlushesBatch(batch) /\ currentBatch' = <<>>
                   ELSE storeCalls' = storeCalls /\ currentBatch' = batch
          /\ (pc = "pass7" /\ pc' = "done") =>
                IF currentBatch # <<>> THEN FlushesBatch(currentBatch)
                ELSE storeCalls' = storeCalls]_vars

\* with batchSize 2 and three rows: a flush of two keys inside the loop, then
\* the remainder of one key flushed at the end of input
C26_Witness ==
    /\ pc = "done"
    /\ options.batchSize = 2
    /\ Len(input) = 3
    /\ Len(ActivityFlushes) = 2
    /\ Len(ActivityFlushes[1].entries) = 2
    /\ Len(ActivityFlushes[2].entries) = 1

\* ------------------------------------------------------------------------
\* What the activity pass leaves alone
\* ------------------------------------------------------------------------

\* the keys of the companies the upsert calls submitted without a store error
UpsertedKeys ==
    UNION {{storeCalls[c].companies[i].vat_number : i \in DOMAIN storeCalls[c].companies} :
             c \in {d \in DOMAIN storeCalls :
                       storeCalls[d].op = "upsert" /\ ~storeCalls[d].error}}

\* the keys of the batch the step flushes, none when it flushes nothing
KeysFlushedByStep ==
    IF Len(storeCalls') = Len(storeCalls) + 1 /\ storeCalls'[Len(storeCalls')].op = "update"
    THEN {storeCalls'[Len(storeCalls')].entries[e].key :
             e \in DOMAIN storeCalls'[Len(storeCalls')].entries}
    ELSE {}

\* C27 as stated: during and after the activity pass the table holds the
\* keys the upsert left in it; a step of the pass neither adds nor removes a
\* key, changes in a row nothing but nace_codes and nace_main, and changes
\* only rows whose key is in the batch it flushes, so that a batch of keys
\* the table does not hold changes nothing.
C27_ActivityPassOnlySetsNace ==
    /\ [](pc \in {"pass7", "done"} => DOMAIN store = UpsertedKeys)
    /\ [][pc = "pass7" =>
            /\ DOMAIN store' = DOMAIN store
            /\ \A k \in DOMAIN store :
                  /\ [store'[k] EXCEPT !.nace_codes = store[k].nace_codes,
                                       !.nace_main = store[k].nace_main] = store[k]
                  /\ store'[k] # store[k] => k \in KeysFlushedByStep
            /\ KeysFlushedByStep \cap DOMAIN store = {} => store' = store]_vars

\* C27, amended: as above, but a row the pass updates also gets a new
\* updated_at, from the trigger of the table; nace_codes, nace_main and
\* updated_at are all that changes, and updated_at changes in exactly the
\* rows whose update the store accepted.
C27_ActivityPassSetsNaceAndUpdatedAt ==
    /\ [](pc \in {"pass7", "done"} => DOMAIN store = UpsertedKeys)
    /\ [][pc = "pass7" =>
            /\ DOMAIN store' = DOMAIN store
            /\ \A k \in DOMAIN store :
                  /\ [store'[k] EXCEPT !.nace_codes = store[k].nace_codes,
                                       !.nace_main = store[k].nace_main,
                                       !.updated_at = store[k].updated_at] = store[k]
                  /\ store'[k] # store[k] => k \in KeysFlushedByStep
                  /\ store'[k].updated_at # store[k].updated_at <=>
                        /\ k \in KeysFlushedByStep
                        /\ k \notin storeCalls'[Len(storeCalls')].failing
            /\ KeysFlushedByStep \cap DOMAIN store = {} => store' = store]_vars

\* the pass is over: a batch with the key KU, which the table does not hold,
\* was flushed, and so was one that gave K1 its codes
C27_Witness ==
    /\ pc = "done"
    /\ \E j \in DOMAIN ActivityFlushes :
          \A e \in DOMAIN ActivityFlushes[j].entries : ActivityFlushes[j].entries[e].key = KU
    /\ DOMAIN store = {K1, K2}
    /\ store[K1].nace_codes # <<>>
    /\ store[K1].nace_main # UNDEF
    /\ store[K1].updated_at > 1
    /\ store[K2].nace_codes = <<>>
    /\ store[K2].updated_at = 1

\* ------------------------------------------------------------------------
\* The two writers and the two queries on a table enriched before
\* ------------------------------------------------------------------------

\* what extractKboData finds on a page where every pattern matches, and on
\* one where none does
FoundAll ==
    [functions |-> <<[firstName |-> "M", lastName |-> "B", role |-> "Bestuurder"]>>,
     capital |-> <<18600>>,
     fiscalYearEnd |-> <<"3", "1", "/", "1", "2">>,
     annualMeetingMonth |-> <<"j", "u", "n", "i">>,
     juridicalSituationDate |-> <<"2", "0", "2", "4", "-", "0", "4", "-", "0", "9">>,
     entityLinks |-> <<[type |-> "unknown", vat_number |-> K2]>>,
     qualifications |-> <<[type |-> "vat_subject", label |-> "VAT Subject"]>>,
     naceHistory |-> <<[key |-> "current", val |-> <<"62.010">>]>>,
     exceptionalFiscalPeriods |-> <<[start_date |-> "2023-01-01", end_date |-> "2024-06-30"]>>]

FoundNone ==
    [functions |-> <<>>, capital |-> <<>>, fiscalYearEnd |-> NULL,
     annualMeetingMonth |-> NULL, juridicalSituationDate |-> NULL, entityLinks |-> <<>>,
     qualifications |-> <<>>, naceHistory |-> <<>>, exceptionalFiscalPeriods |-> <<>>]

\* the column of the table each field of KboEnrichmentData goes to
ColumnOfField ==
    [functions |-> "functions", capital |-> "capital",
     fiscalYearEnd |-> "fiscal_year_end", annualMeetingMonth |-> "annual_meeting_month",
     juridicalSituationDate |-> "juridical_situation_date", entityLinks |-> "entity_links",
     qualifications |-> "qualifications", naceHistory |-> "nace_history",
     exceptionalFiscalPeriods |-> "exceptional_fiscal_periods"]

\* nothing found, everything found, one field found alone, one field alone
\* not found
FoundSamples ==
    {FoundNone, FoundAll}
    \cup {[FoundNone EXCEPT ![f] = FoundAll[f]] : f \in DOMAIN ColumnOfField}
    \cup {[FoundAll EXCEPT ![f] = FoundNone[f]] : f \in DOMAIN ColumnOfField}

\* a page of the KBO portal on which the patterns find found
PageFinding(found) ==
    [Page(PlainText, <<>>, <<>>, found.functions, found.capital, FALSE)
        EXCEPT !.details = [name \in DOMAIN NoDetails |-> found[name]]]

\* the table: K1 was enriched from both portals forty days ago and holds a
\* value in every column the writers set, K2 was never enriched
EnrichedTable ==
    <<[CompanyRow(K1, <<Now - 40 * DaySeconds>>, <<Now - 40 * DaySeconds>>) EXCEPT
          !.financial_summary =
              <<FinancialSummaryOf([vatNumber |-> K1, year |-> 2022, turnover |-> <<900>>,
                                    profitLoss |-> <<90>>, equity |-> <<>>,
                                    employees |-> <<3>>])>>,
          !.functions = <<[firstName |-> "A", lastName |-> "Z", role |-> "Zaakvoerder"]>>,
          !.capital = <<5000>>,
          !.fiscal_year_end = <<"3", "0", "/", "0", "6">>,
          !.annual_meeting_month = <<"m", "e", "i">>,
          !.juridical_situation_date = <<"2", "0", "1", "0", "-", "0", "1", "-", "0", "1">>,
          !.entity_links = <<[type |-> "unknown", vat_number |-> KU]>>,
          !.qualifications = <<[type |-> "rsz_employer", label |-> "RSZ Employer"]>>,
          !.nace_history = <<[key |-> "current", val |-> <<"47.110">>]>>,
          !.exceptional_fiscal_periods =
              <<[start_date |-> "2009-01-01", end_date |-> "2010-06-30"]>>],
      CompanyRow(K2, <<>>, <<>>)>>

\* a handler of either crawler has pushed its success record and is about to
\* call its writer, for a key of the table or for KU, which the table does
\* not hold
InitWrites ==
    /\ ImportIdle /\ VatIdle /\ NamesIdle /\ FlushIdle
    /\ cli = [vat |-> NULL] /\ exitCode = -1
    /\ env = [SUPABASE_URL |-> "set", SUPABASE_SERVICE_KEY |-> "set"]
    /\ argv = NoArgv
    /\ mainPc = "crawling"
    /\ stderr = <<>>
    /\ companyRows = EnrichedTable
    /\ clock = Now
    /\ selected = NoQuery
    /\ source \in {"nbb", "kbo"}
    /\ handled = {}
    /\ \E vatNumber \in {K1, K2, KU} :
       \E data \in IF source = "nbb"
                   THEN {extractFinancialData(
                             Page(PlainText, <<2023>>, csv, <<>>, <<>>, FALSE), vatNumber) :
                             csv \in {<<>>, FullCsv}}
                   ELSE {extractKboData(PageFinding(found), vatNumber) :
                             found \in FoundSamples} :
          /\ runKeys = <<vatNumber>>
          /\ requestQueue = EnqueueAllFor(source, <<>>, <<vatNumber>>)
          /\ attempts = <<[key |-> requestQueue[1].uniqueKey, val |-> 1]>>
          /\ dataset = <<DatasetRecord(vatNumber, "success", data, <<>>, <<>>)>>
          /\ inProgress = [w \in Workers |->
                IF w = 1 THEN <<[uniqueKey |-> requestQueue[1].uniqueKey,
                                 stage |-> "saving", data |-> data]>>
                ELSE <<>>]

\* the options the scheduler queries run with here
WriteQueryOptions ==
    {[limit |-> <<>>, olderThanDays |-> <<>>], [limit |-> <<1>>, olderThanDays |-> <<1>>]}

NextWrites ==
    \/ \E w \in Workers, error \in BOOLEAN : SaveToDatabase(w, error)
    \/ \E opts \in WriteQueryOptions, error \in BOOLEAN : QueryNbb(opts, error)
    \/ \E opts \in WriteQueryOptions, error \in BOOLEAN : QueryKbo(opts, error)

SpecWrites == InitWrites /\ [][NextWrites]_vars

\* worker w returns from the writer of source src in this step
WriterReturns(w, src) ==
    /\ source = src
    /\ inProgress[w] # <<>>
    /\ inProgress[w][1].stage = "saving"
    /\ inProgress'[w] = <<>>

\* the extraction found no value for field f
FoundNothingFor(data, f) == data[f] = FoundNone[f]

\* C28: a write of the KBO enrichment leaves every column unchanged for
\* which the extraction found no value: for each of the nine fields, share
\* capital, fiscal year end, annual meeting month, juridical-situation date,
\* entity links, qualifications, historical activity codes, exceptional
\* fiscal periods and the list of functions, a field that is null or empty
\* in the data leaves its column as it was.
C28_AbsentFieldsKeepStoredValue ==
    [][\A w \in Workers :
          WriterReturns(w, "kbo") =>
             \A i \in DOMAIN companyRows, f \in DOMAIN ColumnOfField :
                FoundNothingFor(inProgress[w][1].data[1], f) =>
                   companyRows'[i][ColumnOfField[f]] = companyRows[i][ColumnOfField[f]]]_vars

\* the same for the eight fields other than functions
OptionalFieldsKeepStoredValue ==
    [][\A w \in Workers :
          WriterReturns(w, "kbo") =>
             \A i \in DOMAIN companyRows, f \in DOMAIN ColumnOfField \ {"functions"} :
                /\ FoundNothingFor(inProgress[w][1].data[1], f) =>
                      companyRows'[i][ColumnOfField[f]] = companyRows[i][ColumnOfField[f]]
                /\ companyRows'[i][ColumnOfField[f]] \in
                      {companyRows[i][ColumnOfField[f]], inProgress[w][1].data[1][f]}]_vars

\* the table with the column of every row set to stamp
WithColumn(rows, column, stamp) ==
    [i \in DOMAIN rows |-> [rows[i] EXCEPT ![column] = stamp]]

\* the rows the query of each source may return do not depend on the
\* timestamp of the other source
SelectionIgnoresOtherStamp(rows) ==
    \A opts \in QueryOptions, stamp \in {<<>>, <<0>>, <<clock>>} :
        /\ getCompaniesNeedingEnrichment(
               WithColumn(rows, "last_kbo_enriched_at", stamp), clock, opts)
              = getCompaniesNeedingEnrichment(rows, clock, opts)
        /\ getCompaniesNeedingKboEnrichment(
               WithColumn(rows, "last_enriched_at", stamp), clock, opts)
              = getCompaniesNeedingKboEnrichment(rows, clock, opts)

\* the key the writer of worker w is called with
TargetOf(w) == inProgress[w][1].data[1].vatNumber

\* the rows a query returns are rows it may return with the timestamps of
\* the other source erased
QueryIgnoresOtherStamp ==
    (selected' # selected /\ ~selected'.error) =>
        selected'.data \in
           (IF selected'.column = "last_enriched_at"
            THEN getCompaniesNeedingEnrichment(
                    WithColumn(companyRows, "last_kbo_enriched_at", <<>>),
                    clock, selected'.options)
            ELSE getCompaniesNeedingKboEnrichment(
                    WithColumn(companyRows, "last_enriched_at", <<>>),
                    clock, selected'.options))

\* what a step of either writer leaves alone, nbbColumns being the columns
\* an NBB write may change
WritersAreIndependent(nbbColumns) ==
         \A w \in Workers :
            /\ WriterReturns(w, "nbb") =>
                  /\ \A i \in DOMAIN companyRows :
                        /\ companyRows[i].vat_number # TargetOf(w) =>
                              companyRows'[i] = companyRows[i]
                        /\ \A c \in DOMAIN companyRows[i] \ nbbColumns :
                              companyRows'[i][c] = companyRows[i][c]
                  /\ \A opts \in QueryOptions :
                        getCompaniesNeedingKboEnrichment(companyRows', clock, opts)
                           = getCompaniesNeedingKboEnrichment(companyRows, clock, opts)
            /\ WriterReturns(w, "kbo") =>
                  /\ \A i \in DOMAIN companyRows :
                        /\ companyRows[i].vat_number # TargetOf(w) =>
                              companyRows'[i] = companyRows[i]
                        /\ companyRows'[i].financial_summary = companyRows[i].financial_summary
                        /\ companyRows'[i].last_enriched_at = companyRows[i].last_enriched_at
                  /\ \A opts \in QueryOptions :
                        getCompaniesNeedingEnrichment(companyRows', clock, opts)
                           = getCompaniesNeedingEnrichment(companyRows, clock, opts)

\* C29 as stated: an NBB write changes only financial_summary and
\* last_enriched_at, and only in the rows of its key; a KBO write changes
\* neither of the two in any row and nothing in the rows of other keys; what
\* the query of one source may return is the same whatever the timestamps of
\* the other source, before and after a write of the other source.
C29_TimestampsAreIndependent ==
    /\ []SelectionIgnoresOtherStamp(companyRows)
    /\ [][/\ QueryIgnoresOtherStamp
          /\ WritersAreIndependent({"financial_summary", "last_enriched_at"})]_vars

\* C29, amended: as above, but a row an NBB write updates also gets a new
\* updated_at, from the trigger of the table.
C29_TimestampsAreIndependentButUpdatedAt ==
    /\ []SelectionIgnoresOtherStamp(companyRows)
    /\ [][/\ QueryIgnoresOtherStamp
          /\ WritersAreIndependent({"financial_summary", "last_enriched_at",
                                    "updated_at"})]_vars

\* K1 was written by the KBO writer, which replaced its functions and its
\* KBO timestamp and left its financial summary and its NBB timestamp of
\* forty days ago; the NBB query, run afterwards, still selects it
C29_Witness ==
    /\ source = "kbo"
    /\ handled # {}
    /\ companyRows[1].last_kbo_enriched_at = <<Now>>
    /\ companyRows[1].functions = FoundAll.functions
    /\ companyRows[1].last_enriched_at = EnrichedTable[1].last_enriched_at
    /\ companyRows[1].financial_summary = EnrichedTable[1].financial_summary
    /\ companyRows[2] = EnrichedTable[2]
    /\ selected.column = "last_enriched_at"
    /\ ~selected.error
    /\ \E i \in DOMAIN selected.data : selected.data[i].vat_number = K1

\* ------------------------------------------------------------------------
\* The contacts count of the summary
\* ------------------------------------------------------------------------

\* the keys submitted to the store with a contact, which are keys the contact
\* pass collected a value for
KeysSubmittedWithContact ==
    {SubmittedCompanies(storeCalls)[i].vat_number :
        i \in {j \in DOMAIN SubmittedCompanies(storeCalls) :
                  SubmittedCompanies(storeCalls)[j].contact # <<>>}}

\* C30: the contacts count of the summary importKboData returns is the
\* number of keys the contact pass collected a value for; it is therefore at
\* least the number of keys submitted to the store with a contact, and it is
\* 0 only when no company was submitted with a contact.
C30_ContactsCountIsReported ==
    pc = "done" =>
        /\ result.contacts >= Cardinality(KeysSubmittedWithContact)
        /\ result.contacts = 0 => KeysSubmittedWithContact = {}

\* whatever the contact pass collected, the summary reports 0 contacts
ContactsCountIsZero == pc = "done" => result.contacts = 0

====
